---- MODULE Spec2Model ----
(***************************************************************************)
(* EV battery health monitor: simulation engine.                           *)
(*                                                                         *)
(* Fixed-point units used for the floating-point quantities of the source: *)
(*   temperature        milli-degrees Celsius  (25.0 C   = 25000)          *)
(*   power limit/derate 1e-5 parts             (0.7      = 70000)          *)
(*   current            deci-amperes           (-250.0 A = -2500)          *)
(*   voltage            deci-volts             (350.0 V  = 3500)           *)
(*   power              watts                                              *)
(*   SoC, SoH           centi-percent          (80.0 %   = 8000)           *)
(*   capacity           units of 10 Wh         (82.0 kWh = 8200)           *)
(*   time, durations    seconds                                            *)
(* A division of the source is a division rounded to the nearest unit.     *)
(***************************************************************************)
EXTENDS Integers, Sequences, FiniteSets, TLC

VARIABLES
    VEHICLE_SPECS,   \* battery_model.VEHICLE_SPECS: vehicle id -> BatterySpecs
    thermal_safety,  \* a ThermalSafetyManager: its fields
    battery,         \* a BatteryModel: its fields (its manager is thermal_safety)
    result,          \* what the last check_temperature call returned
    last_step,       \* arguments and return value of the last apply_current call
    op,              \* the operation that produced the current state
    nsteps,          \* number of operations performed so far
    shutdown_temp_seen, \* history: some check since the last recovery had temp >= shutdown_temp
    rng,             \* states of the process-wide generators: random and numpy.random
    simulator,       \* an EVBatterySimulator / EVBatterySimulatorV2 (its battery is
                     \* the variable battery) and the position of its run
    telemetry_records, \* simulate_day: the records of the day being simulated
    all_telemetry,   \* run_simulation: the records of the days already returned
    previous,        \* what an earlier call of run_simulation with the same arguments
                     \* returned: its records and its events
    parked,          \* a second simulator of the process, between two of its calls:
                     \* its fields, its battery and the records it has returned
    call             \* a call of a method of one of the generators: its arguments,
                     \* its local variables and its position

vars == <<VEHICLE_SPECS, thermal_safety, battery, result, last_step, op, nsteps,
          shutdown_temp_seen, rng, simulator, telemetry_records, all_telemetry,
          previous, parked, call>>

\* the variables of a simulation run
simvars == <<rng, simulator, telemetry_records, all_telemetry, previous, parked, call>>

-----------------------------------------------------------------------------
(* Arithmetic helpers *)

Milli == 10 * 100       \* milli-degrees per degree
Unit == 100 * 1000      \* 1.0 as a power limit, derate or taper factor

Min(a, b) == IF a <= b THEN a ELSE b
Max(a, b) == IF a >= b THEN a ELSE b
Abs(a) == IF a >= 0 THEN a ELSE -a
Clip(x, lo, hi) == IF x < lo THEN lo ELSE IF x > hi THEN hi ELSE x

\* a / b (b > 0) rounded to the nearest integer, halves away from zero
RoundDiv(a, b) ==
    LET n == Abs(a)
        q == n \div b
        r == n % b
        m == IF 2 * r >= b THEN q + 1 ELSE q
    IN IF a >= 0 THEN m ELSE -m

-----------------------------------------------------------------------------
(* thermal_safety.py *)

\* ThermalThresholds defaults, in degrees Celsius
warning_temp == 50
critical_temp == 55
shutdown_temp == 60
recovery_temp == 45
\* _log_event keeps the last 1000 events
MaxEventHistory == 1000

NORMAL == "normal"
WARNING == "warning"
CRITICAL == "critical"
SHUTDOWN == "shutdown"
ThermalStatus == {NORMAL, WARNING, CRITICAL, SHUTDOWN}

\* ThermalSafetyManager.__init__
NewThermalSafetyManager ==
    [current_status |-> NORMAL, shutdown_active |-> FALSE,
     warning_count |-> 0, event_history |-> <<>>]

\* _log_event keeping the first 1000 events instead of the last 1000
LogEvent_KeepsOldest(history, event_type, temp) ==
    LET h == Append(history, [type |-> event_type, temperature |-> temp])
    IN IF Len(h) > MaxEventHistory
       THEN SubSeq(h, 1, MaxEventHistory)
       ELSE h

\* ThermalSafetyManager._log_event (timestamp and message text are not modelled)
LogEvent(history, event_type, temp) ==
    LET h == Append(history, [type |-> event_type, temperature |-> temp])
    IN IF Len(h) > MaxEventHistory
       THEN SubSeq(h, Len(h) - MaxEventHistory + 1, Len(h))
       ELSE h

\* the shutdown test of check_temperature (line 96)
ReachesShutdown_Strict(temp) == temp > shutdown_temp * Milli
ReachesShutdown(temp) == temp >= shutdown_temp * Milli

\* the recovery test of check_temperature (line 81)
RecoveryReached_BelowWarning(temp) == temp < warning_temp * Milli
RecoveryReached(temp) == temp <= recovery_temp * Milli

\* the result returned while shutdown stays active (lines 89-93)
ShutdownWaitResult_StatusNotSet(temp) ==
    [temperature |-> temp, status |-> NORMAL, power_limit |-> 0,
     action_required |-> TRUE, recovered |-> FALSE]
ShutdownWaitResult(temp) ==
    [temperature |-> temp, status |-> SHUTDOWN, power_limit |-> 0,
     action_required |-> TRUE, recovered |-> FALSE]

\* the status determination where the shutdown branch sets the flag and
\* leaves current_status as it was
DetermineStatus_StatusNotStored(m, previous_status, temp, recovered) ==
    IF ReachesShutdown(temp)
    THEN [ts |-> [m EXCEPT !.shutdown_active = TRUE,
                           !.event_history = LogEvent(m.event_history, "shutdown", temp)],
          result |-> [temperature |-> temp, status |-> SHUTDOWN, power_limit |-> 0,
                      action_required |-> TRUE, recovered |-> recovered]]
    ELSE IF temp >= critical_temp * Milli
    THEN [ts |-> [m EXCEPT !.current_status = CRITICAL,
                           !.event_history = LogEvent(m.event_history, "critical", temp)],
          result |-> [temperature |-> temp, status |-> CRITICAL,
                      power_limit |-> (3 * Unit) \div 10,
                      action_required |-> TRUE, recovered |-> recovered]]
    ELSE IF temp >= warning_temp * Milli
    THEN [ts |-> [m EXCEPT !.current_status = WARNING,
                           !.warning_count = m.warning_count + 1,
                           !.event_history = LogEvent(m.event_history, "warning", temp)],
          result |-> [temperature |-> temp, status |-> WARNING,
                      power_limit |-> (7 * Unit) \div 10,
                      action_required |-> FALSE, recovered |-> recovered]]
    ELSE [ts |-> [m EXCEPT !.current_status = NORMAL,
                           !.warning_count = IF previous_status # NORMAL
                                             THEN 0 ELSE m.warning_count],
          result |-> [temperature |-> temp, status |-> NORMAL, power_limit |-> Unit,
                      action_required |-> FALSE, recovered |-> recovered]]

\* The status determination of check_temperature (lines 95-148), entered with
\* manager state m (after the recovery branch, if it was taken).
DetermineStatus(m, previous_status, temp, recovered) ==
    IF ReachesShutdown(temp)
    THEN [ts |-> [m EXCEPT !.current_status = SHUTDOWN,
                           !.shutdown_active = TRUE,
                           !.event_history = LogEvent(m.event_history, "shutdown", temp)],
          result |-> [temperature |-> temp, status |-> SHUTDOWN, power_limit |-> 0,
                      action_required |-> TRUE, recovered |-> recovered]]
    ELSE IF temp >= critical_temp * Milli
    THEN [ts |-> [m EXCEPT !.current_status = CRITICAL,
                           !.event_history = LogEvent(m.event_history, "critical", temp)],
          result |-> [temperature |-> temp, status |-> CRITICAL,
                      power_limit |-> (3 * Unit) \div 10,
                      action_required |-> TRUE, recovered |-> recovered]]
    ELSE IF temp >= warning_temp * Milli
    THEN [ts |-> [m EXCEPT !.current_status = WARNING,
                           !.warning_count = m.warning_count + 1,
                           !.event_history = LogEvent(m.event_history, "warning", temp)],
          result |-> [temperature |-> temp, status |-> WARNING,
                      power_limit |-> (7 * Unit) \div 10,
                      action_required |-> FALSE, recovered |-> recovered]]
    ELSE [ts |-> [m EXCEPT !.current_status = NORMAL,
                           !.warning_count = IF previous_status # NORMAL
                                             THEN 0 ELSE m.warning_count],
          result |-> [temperature |-> temp, status |-> NORMAL, power_limit |-> Unit,
                      action_required |-> FALSE, recovered |-> recovered]]

\* check_temperature where previous_status is taken to be Normal
CheckTemperature_PreviousStatusNormal(ts, temp) ==
    IF ts.shutdown_active
    THEN IF RecoveryReached(temp)
         THEN DetermineStatus(
                  [ts EXCEPT !.shutdown_active = FALSE,
                             !.current_status = NORMAL,
                             !.event_history = LogEvent(ts.event_history, "recovery", temp)],
                  NORMAL, temp, TRUE)
         ELSE [ts |-> ts, result |-> ShutdownWaitResult(temp)]
    ELSE DetermineStatus(ts, NORMAL, temp, FALSE)

\* ThermalSafetyManager.check_temperature: the new manager state and the result.
\* result.recovered tells that the recovery branch (lines 81-87) was taken.
CheckTemperature(ts, temp) ==
    IF ts.shutdown_active
    THEN IF RecoveryReached(temp)
         THEN DetermineStatus(
                  [ts EXCEPT !.shutdown_active = FALSE,
                             !.current_status = NORMAL,
                             !.event_history = LogEvent(ts.event_history, "recovery", temp)],
                  ts.current_status, temp, TRUE)
         ELSE [ts |-> ts, result |-> ShutdownWaitResult(temp)]
    ELSE DetermineStatus(ts, ts.current_status, temp, FALSE)

\* ThermalSafetyManager.reset
ResetManager(ts) == NewThermalSafetyManager

\* should_allow_charging without the test of shutdown_active
ShouldAllowCharging_TemperatureOnly(ts, temp) ==
    IF temp >= critical_temp * Milli
    THEN [allowed |-> FALSE, reason |-> "Temperature too high"]
    ELSE IF temp >= warning_temp * Milli
    THEN [allowed |-> TRUE, reason |-> "Slow charging only - elevated temperature"]
    ELSE [allowed |-> TRUE, reason |-> "Normal charging allowed"]

\* ThermalSafetyManager.should_allow_charging (lines 182-200): the pair
\* returned, the reason without the temperature it quotes
ShouldAllowCharging(ts, temp) ==
    IF ts.shutdown_active
    THEN [allowed |-> FALSE, reason |-> "Thermal shutdown active"]
    ELSE IF temp >= critical_temp * Milli
    THEN [allowed |-> FALSE, reason |-> "Temperature too high"]
    ELSE IF temp >= warning_temp * Milli
    THEN [allowed |-> TRUE, reason |-> "Slow charging only - elevated temperature"]
    ELSE [allowed |-> TRUE, reason |-> "Normal charging allowed"]

-----------------------------------------------------------------------------
(* battery_model.py *)

\* VEHICLE_SPECS: capacity in kWh, voltages in V, currents in A, thermal mass
\* in kg, internal resistance in milli-ohms (0.05 ohm = 50)
VehicleCatalog ==
    [VEH001 |-> [vehicle_id |-> "VEH001", make |-> "Tesla",
                 nominal_capacity_kwh |-> 82, nominal_voltage |-> 350,
                 max_voltage |-> 420, min_voltage |-> 300,
                 max_charge_current |-> 200, max_discharge_current |-> -250,
                 thermal_mass |-> 400, internal_resistance |-> 50],
     VEH002 |-> [vehicle_id |-> "VEH002", make |-> "Nissan",
                 nominal_capacity_kwh |-> 62, nominal_voltage |-> 350,
                 max_voltage |-> 403, min_voltage |-> 300,
                 max_charge_current |-> 100, max_discharge_current |-> -150,
                 thermal_mass |-> 300, internal_resistance |-> 80]]

\* nominal_capacity_kwh * (soh / 100.0) * factor, in units of 10 Wh
\* (factor_num / factor_den is 1 at construction, 0.8 for a cold battery)
EffectiveCapacity(specs, soh, factor_num, factor_den) ==
    RoundDiv(specs.nominal_capacity_kwh * 100 * soh * factor_num, 10000 * factor_den)

\* BatteryModel._calculate_voltage: open-circuit voltage (deci-volts) of a SoC
CalculateVoltage(specs, soc) ==
    LET voltage_norm ==          \* in 1e-5 parts; soc_norm = soc / 10000
            IF soc < 1000 THEN soc * 20
            ELSE IF soc < 9000 THEN 20000 + RoundDiv((soc - 1000) * 15, 2)
            ELSE 80000 + (soc - 9000) * 20
        voltage_range == (specs.max_voltage - specs.min_voltage) * 10
    IN specs.min_voltage * 10 + RoundDiv(voltage_norm * voltage_range, Unit)

\* BatteryModel._calculate_voltage_under_load
CalculateVoltageUnderLoad(specs, soc, current) ==
    LET ocv == CalculateVoltage(specs, soc)
        voltage_drop == RoundDiv(current * specs.internal_resistance, 1000)
    IN Clip(ocv - voltage_drop, specs.min_voltage * 10, specs.max_voltage * 10)

\* BatteryModel.update_soc: the new SoC
UpdateSoc_Unclipped(specs, b, current, dt) ==
    LET voltage == CalculateVoltageUnderLoad(specs, b.soc, current)
        power == RoundDiv(voltage * current, 100)
        energy_change == RoundDiv(power * dt, 360)
        soc_change == RoundDiv(energy_change * 100, b.effective_capacity_kwh)
    IN b.soc + soc_change
UpdateSoc(specs, b, current, dt) ==
    LET voltage == CalculateVoltageUnderLoad(specs, b.soc, current)
        power == RoundDiv(voltage * current, 100)              \* W
        energy_change == RoundDiv(power * dt, 360)             \* 0.1 Wh
        soc_change == RoundDiv(energy_change * 100, b.effective_capacity_kwh)
    IN Clip(b.soc + soc_change, 0, 10000)

\* BatteryModel.update_thermal: the new battery fields and manager state.
\* b.current is the current applied in this step.
UpdateThermal(specs, b, ts, dt, power) ==
    LET i2r == RoundDiv(b.current * b.current * specs.internal_resistance, 10000) \* 0.1 W
        heat_generated == IF power > 0 THEN i2r + RoundDiv(Abs(power), 2) ELSE i2r
        \* (heat_generated - heat_removed) * dt / (thermal_mass * specific_heat),
        \* the two terms rounded separately; cooling_coefficient = 0.001
        temp_change == RoundDiv(heat_generated * dt, specs.thermal_mass * 10)
                       - RoundDiv((b.temperature - b.ambient_temp) * dt,
                                  specs.thermal_mass * 1000 * Milli)
        temperature == b.temperature + temp_change
        chk == CheckTemperature(ts, temperature)
    IN [battery |-> [b EXCEPT !.temperature = temperature,
                              !.effective_capacity_kwh =
                                  IF temperature < 0
                                  THEN EffectiveCapacity(specs, b.soh, 4, 5)
                                  ELSE b.effective_capacity_kwh],
        ts |-> chk.ts, thermal_check |-> chk.result]

\* temperature derating of apply_current (lines 208-215)
TempDerate(temperature) ==
    IF temperature > 45 * Milli
    THEN Max(Unit \div 2, Unit - (temperature - 45 * Milli) * 5)
    ELSE IF temperature < 0
    THEN Max((3 * Unit) \div 10, Unit + temperature * 5)
    ELSE Unit

\* CC-CV taper factor of apply_current (lines 224-227), applied when soc > 80
TaperFactor(soc) == Max(Unit \div 10, Unit - (soc - 8000) * 50)

\* max_current of apply_current (lines 221-229), in deci-amperes
MaxCurrent(specs, soc, requested_current, power_limit) ==
    IF requested_current > 0
    THEN LET max_current == RoundDiv(specs.max_charge_current * 10 * power_limit, Unit)
         IN IF soc > 8000
            THEN RoundDiv(max_current * TaperFactor(soc), Unit)
            ELSE max_current
    ELSE RoundDiv(specs.max_discharge_current * 10 * power_limit, Unit)

\* the clamp of apply_current (lines 232-235)
LimitCurrent_ChargeOnly(requested_current, max_current) ==
    IF requested_current > 0
    THEN Min(requested_current, max_current)
    ELSE requested_current
LimitCurrent(requested_current, max_current) ==
    IF requested_current > 0
    THEN Min(requested_current, max_current)
    ELSE Max(requested_current, max_current)

\* "Use the more conservative limit" (line 218)
PowerLimit_DerateOnly(temp_derate, thermal_power_limit) == temp_derate
PowerLimit(temp_derate, thermal_power_limit) == Min(temp_derate, thermal_power_limit)

\* BatteryModel.apply_current: new battery fields, new manager state, and the
\* returned (actual_current, voltage, power) with the thermal check it used
ApplyCurrent(specs, b, ts, requested_current, dt) ==
    LET thermal_check == CheckTemperature(ts, b.temperature)
        thermal_power_limit == thermal_check.result.power_limit
        power_limit == PowerLimit(TempDerate(b.temperature), thermal_power_limit)
        max_current == MaxCurrent(specs, b.soc, requested_current, power_limit)
        current == LimitCurrent(requested_current, max_current)
        voltage == CalculateVoltageUnderLoad(specs, b.soc, current)
        power == RoundDiv(voltage * current, 100)
        b1 == [b EXCEPT !.current = current, !.voltage = voltage]
        b2 == [b1 EXCEPT !.soc = UpdateSoc(specs, b1, current, dt)]
        th == UpdateThermal(specs, b2, thermal_check.ts, dt, power)
    IN [battery |-> th.battery, ts |-> th.ts,
        thermal_check |-> thermal_check.result,
        final_check |-> th.thermal_check,
        actual_current |-> current, voltage |-> voltage, power |-> power]

\* BatteryModel.__init__
NewBatteryModel(specs, initial_soc, initial_temp, soh) ==
    [vehicle_id |-> specs.vehicle_id, soc |-> initial_soc, soh |-> soh,
     temperature |-> initial_temp,
     voltage |-> CalculateVoltage(specs, initial_soc), current |-> 0,
     ambient_temp |-> 20 * Milli,
     effective_capacity_kwh |-> EffectiveCapacity(specs, soh, 1, 1)]

-----------------------------------------------------------------------------
(* The process-wide random generators: random and numpy.random *)

\* Each generator is a linear congruential generator over 16-bit states. A
\* draw advances the state and reads the high byte of the new state: the
\* uniform variate is byte / 256. The draw operators below take the state the
\* draw reads, RngNext of the state before the draw.
RngModulus == 256 * 256
RngNext(s) == (s * 25173 + 13849) % RngModulus
RngByte(s) == s \div 256

\* (a * b) % RngModulus, computed within 32 bits
RngMulMod(a, b) ==
    ((((a \div 256) * b) % RngModulus) * 256 + (a % 256) * b) % RngModulus

\* a run of draws as one step s -> (f[1] * s + f[2]) % RngModulus, and the run
\* of twice as many draws
RngApply(f, s) == (RngMulMod(f[1], s) + f[2]) % RngModulus
RngTwice(f) == <<RngMulMod(f[1], f[1]), RngApply(f, f[2])>>

\* RngJump[k] is the run of 2^k draws
RngJump[k \in 0..9] == IF k = 0 THEN <<25173, 13849>> ELSE RngTwice(RngJump[k - 1])

\* the state after n more draws, n < 1024
RECURSIVE RngSkipFrom(_, _, _)
RngSkipFrom(s, n, k) ==
    IF k > 9 THEN s
    ELSE RngSkipFrom(IF n > 0 /\ (n \div (2 ^ k)) % 2 = 1 THEN RngApply(RngJump[k], s) ELSE s,
                     n, k + 1)
RngSkip(s, n) == RngSkipFrom(s, n, 0)

\* random.seed(seed) and np.random.seed(seed): the state a seed produces
RandomSeed(seed) == RngNext((seed * 4099) % RngModulus)
NpRandomSeed(seed) == RngNext((seed * 8209 + 1) % RngModulus)

\* random.random() < p and random.random() > p, p in percent
RandomBelow(s, pct) == RngByte(s) * 100 < pct * 256
RandomAbove(s, pct) == RngByte(s) * 100 > pct * 256
\* random.uniform(a, b) in the fixed-point unit of a and b
Uniform(s, a, b) == a + ((b - a) * RngByte(s)) \div 256
\* random.randint(a, b), both ends included
RandInt(s, a, b) == a + (RngByte(s) * (b - a + 1)) \div 256
\* random.choice(seq): the (1-based) position chosen in a sequence of n elements
ChoiceIndex(s, n) == 1 + (RngByte(s) * n) \div 256
\* np.random.normal(0, 1), in whole standard deviations
StdNormal(s) ==
    LET u == RngByte(s)
    IN IF u < 17 THEN -2 ELSE IF u < 79 THEN -1 ELSE IF u < 177 THEN 0
       ELSE IF u < 239 THEN 1 ELSE 2

\* exp(-x) in 1e-5 parts, x >= 0 in thousandths: tabulated at the integers
\* and interpolated linearly in between
ExpTable == <<100000, 36788, 13534, 4979, 1832, 674, 248, 91, 34, 12, 5, 0>>
ExpNeg(x) ==
    LET k == x \div 1000
        f == x % 1000
    IN IF k >= 11 THEN 0
       ELSE ExpTable[k + 1] - ((ExpTable[k + 1] - ExpTable[k + 2]) * f) \div 1000

\* x rounded to a multiple of m (round(x, n) of a fixed-point value)
RoundTo(x, m) == RoundDiv(x, m) * m

-----------------------------------------------------------------------------
(* user_profiles.py *)

NIGHT_OWL == "night_owl"
EARLY_BIRD == "early_bird"
SPONTANEOUS == "spontaneous"
CAUTIOUS == "cautious"
COMMUTER == "commuter"
WEEKEND_WARRIOR == "weekend_warrior"
ECO_CONSCIOUS == "eco_conscious"
PERFORMANCE_ENTHUSIAST == "performance_enthusiast"
\* list(UserProfile)
UserProfile == <<NIGHT_OWL, EARLY_BIRD, SPONTANEOUS, CAUTIOUS, COMMUTER,
                 WEEKEND_WARRIOR, ECO_CONSCIOUS, PERFORMANCE_ENTHUSIAST>>

\* UserBehavior(...): wake range in minutes after midnight, distances in km,
\* weekend multiplier in tenths, SoC levels in centi-percent, the anxiety
\* factor, probabilities and the four characteristics in percent
Behavior(ws, we, peak, dmin, dmax, wmult, smin, starget, anx, night, opp, spont, plan, eco, perf) ==
    [wake_time_range |-> <<ws, we>>, peak_activity_hours |-> peak,
     avg_daily_distance_km |-> <<dmin, dmax>>,
     weekend_distance_multiplier |-> wmult,
     preferred_soc_min |-> smin, preferred_soc_target |-> starget,
     charging_anxiety_factor |-> anx,
     night_charging_probability |-> night,
     opportunity_charging_probability |-> opp,
     spontaneity_factor |-> spont, planning_factor |-> plan,
     eco_consciousness |-> eco, performance_preference |-> perf]

USER_PROFILES ==
    [night_owl |-> Behavior(600, 720, {14, 15, 16, 20, 21, 22, 23, 0, 1},
                            30, 80, 15, 2000, 8000, 70, 30, 40, 80, 30, 40, 60),
     early_bird |-> Behavior(300, 390, {6, 7, 8, 9, 10, 11},
                             40, 100, 8, 4000, 9000, 130, 90, 20, 20, 90, 70, 30),
     spontaneous |-> Behavior(420, 660, 10..21,
                              20, 150, 12, 1500, 7000, 50, 50, 60, 95, 10, 50, 70),
     cautious |-> Behavior(390, 450, {8, 9, 10, 14, 15, 16, 17},
                           30, 60, 9, 5000, 9500, 150, 95, 70, 10, 95, 80, 10),
     commuter |-> Behavior(360, 420, {7, 8, 17, 18},
                           60, 120, 4, 3000, 8500, 110, 80, 30, 30, 70, 60, 40),
     weekend_warrior |-> Behavior(420, 480, {9, 10, 11, 14, 15, 16},
                                  20, 40, 40, 2500, 9000, 100, 60, 50, 60, 60, 40, 80),
     eco_conscious |-> Behavior(390, 450, {8, 9, 10, 11, 14, 15, 16, 17},
                                40, 80, 11, 2000, 8000, 90, 90, 40, 40, 80, 95, 10),
     performance_enthusiast |-> Behavior(420, 510, {9, 10, 17, 18, 19, 20},
                                         50, 120, 15, 3000, 9000, 100, 70, 60, 70, 50,
                                         20, 95)]

\* UserBehaviorSimulator.get_wake_time: the hour of the wake time drawn
GetWakeTime(profile, is_weekend, s) ==
    LET behavior == USER_PROFILES[profile]
        late == is_weekend /\ profile # EARLY_BIRD
        start_minutes == behavior.wake_time_range[1] + (IF late THEN 60 ELSE 0)
        end_minutes == behavior.wake_time_range[2] + (IF late THEN 90 ELSE 0)
        variance == ((end_minutes - start_minutes) * behavior.spontaneity_factor) \div 100
        wake_minutes == RandInt(s, start_minutes, start_minutes + variance)
    IN [hour |-> (wake_minutes \div 60) % 24, minute |-> wake_minutes % 60]

\* UserBehaviorSimulator.should_drive_now: the probability, in percent
DriveProbability(profile, hour, is_weekend) ==
    LET behavior == USER_PROFILES[profile]
        base == IF hour \in behavior.peak_activity_hours THEN 60 ELSE 20
        adjusted ==
            IF profile = COMMUTER /\ ~is_weekend
            THEN (IF hour \in {7, 8, 17, 18} THEN 90 ELSE base)
            ELSE IF profile = WEEKEND_WARRIOR /\ is_weekend THEN base * 2
            ELSE base
    IN adjusted + (behavior.spontaneity_factor - 50) \div 5

\* UserBehaviorSimulator.should_drive_now
ShouldDriveNow(profile, hour, is_weekend, s) ==
    RandomBelow(s, DriveProbability(profile, hour, is_weekend))

\* UserBehaviorSimulator.get_trip_distance, in metres
GetTripDistance(profile, is_weekend, s) ==
    LET behavior == USER_PROFILES[profile]
        mult == IF is_weekend THEN behavior.weekend_distance_multiplier ELSE 10
        min_dist == behavior.avg_daily_distance_km[1] * mult    \* units of 100 m
        max_dist == behavior.avg_daily_distance_km[2] * mult
    IN IF behavior.spontaneity_factor > 70
       THEN Uniform(s, min_dist * 50, max_dist * 150)
       ELSE Uniform(s, min_dist * 80, max_dist * 110)

\* UserBehaviorSimulator.should_charge(current_soc, hour), called with the
\* generator in state s0: the decision, the target and the generator state
ShouldCharge(profile, current_soc, hour, s0) ==
    LET behavior == USER_PROFILES[profile]
        threshold == (behavior.preferred_soc_min * behavior.charging_anxiety_factor) \div 100
        s1 == RngNext(s0)
        s2 == RngNext(s1)
        no == [should_charge |-> FALSE, target_soc |-> 0, random |-> s1]
    IN IF current_soc < threshold
       THEN [should_charge |-> TRUE, target_soc |-> behavior.preferred_soc_target,
             random |-> s0]
       ELSE IF current_soc * 10 < behavior.preferred_soc_target * 8
       THEN IF 22 <= hour \/ hour <= 6
            THEN IF RandomBelow(s1, behavior.night_charging_probability)
                 THEN [should_charge |-> TRUE,
                       target_soc |-> behavior.preferred_soc_target, random |-> s1]
                 ELSE no
            ELSE IF RandomBelow(s1, behavior.opportunity_charging_probability)
                 THEN [should_charge |-> TRUE,
                       target_soc |-> Min(Uniform(s2, current_soc + 2000,
                                                  behavior.preferred_soc_target), 10000),
                       random |-> s2]
                 ELSE no
       ELSE [should_charge |-> FALSE, target_soc |-> 0, random |-> s0]

\* UserBehaviorSimulator.get_driving_style(), trip_purpose "normal":
\* random.choices(styles, weights)
GetDrivingStyle(profile, s) ==
    LET behavior == USER_PROFILES[profile]
        w_eco == behavior.eco_consciousness
        w_normal == 100 - Abs(behavior.performance_preference - 50)
        total == w_eco + w_normal + behavior.performance_preference
        x == RngByte(s) * total
    IN IF x < w_eco * 256 THEN "eco"
       ELSE IF x < (w_eco + w_normal) * 256 THEN "normal"
       ELSE "aggressive"

\* UserBehaviorSimulator.get_charging_type_preference(urgency), urgency in
\* thousandths, called with the generator in state s0
GetChargingTypePreference(profile, urgency, s0) ==
    LET behavior == USER_PROFILES[profile]
        s1 == RngNext(s0)
    IN IF urgency > 800 \/ behavior.spontaneity_factor > 70
       THEN [charging_type |-> IF RandomAbove(s1, 30) THEN "DC_FAST" ELSE "SUPERCHARGER",
             random |-> s1]
       ELSE IF behavior.eco_consciousness > 70
       THEN [charging_type |-> IF RandomAbove(s1, 20) THEN "AC_L2" ELSE "AC_L1",
             random |-> s1]
       ELSE [charging_type |-> "AC_L2", random |-> s0]

-----------------------------------------------------------------------------
(* driving_patterns.py: current profiles, in deci-amperes *)

\* current = -power * 1000 / 350, power in watts
PowerToCurrent(power) == RoundDiv(power, 35)

\* one sample of city driving where coasting ends in stopped, without braking
CitySample_CoastingStops(c, dt) ==
    LET n1 == RngNext(c.np)
        n2 == RngNext(n1)
        n3 == RngNext(n2)
    IN CASE c.state = "stopped" ->
              LET timer == c.state_timer + dt
                  go == timer > Uniform(n1, 30, 90)
              IN [c EXCEPT !.current = 0, !.np = n1,
                           !.state = IF go THEN "accelerating" ELSE "stopped",
                           !.state_timer = IF go THEN 0 ELSE timer]
         [] c.state = "accelerating" ->
              LET acceleration_power ==
                      (Uniform(n1, 30000, 60000) * (10 + StdNormal(n2))) \div 10
                  speed == c.speed_mph + 30 * dt
                  go == speed >= Uniform(n3, 250, 370)
              IN [c EXCEPT !.current = -PowerToCurrent(acceleration_power),
                           !.np = n3, !.speed_mph = speed,
                           !.state = IF go THEN "cruising" ELSE "accelerating",
                           !.state_timer = IF go THEN 0 ELSE c.state_timer]
         [] c.state = "cruising" ->
              LET cruise_power == 10000 + c.speed_mph * 50
                  current == -((PowerToCurrent(cruise_power)
                                * (100 + 5 * StdNormal(n1))) \div 100)
                  timer == c.state_timer + dt
                  go == timer > Uniform(n2, 10, 30)
                  r1 == RngNext(c.random)
              IN [c EXCEPT !.current = current, !.np = n2,
                           !.random = IF go THEN r1 ELSE c.random,
                           !.state = IF ~go THEN "cruising"
                                     ELSE IF RandomAbove(r1, 30) THEN "braking"
                                     ELSE "coasting",
                           !.state_timer = IF go THEN 0 ELSE timer]
         [] c.state = "braking" ->
              LET regen_power == Uniform(n1, 10000, 30000)
                  speed == c.speed_mph - 60 * dt
                  stop == speed <= 0
              IN [c EXCEPT !.current = PowerToCurrent(regen_power), !.np = n1,
                           !.speed_mph = IF stop THEN 0 ELSE speed,
                           !.state = IF stop THEN "stopped" ELSE "braking",
                           !.state_timer = IF stop THEN 0 ELSE c.state_timer]
         [] c.state = "coasting" ->
              LET speed == c.speed_mph - 12 * dt
                  timer == c.state_timer + dt
                  go == timer > Uniform(n1, 5, 15) \/ speed <= 120
              IN [c EXCEPT !.current = -PowerToCurrent(2000), !.np = n1,
                           !.speed_mph = speed,
                           !.state = IF go THEN "stopped" ELSE "coasting",
                           !.state_timer = IF go THEN 0 ELSE timer]

\* DrivingPatternGenerator.generate_city_driving, one sample: state_timer in
\* seconds, speed_mph in tenths, np and random the generator states
CitySample(c, dt) ==
    LET n1 == RngNext(c.np)
        n2 == RngNext(n1)
        n3 == RngNext(n2)
    IN CASE c.state = "stopped" ->
              LET timer == c.state_timer + dt
                  go == timer > Uniform(n1, 30, 90)
              IN [c EXCEPT !.current = 0, !.np = n1,
                           !.state = IF go THEN "accelerating" ELSE "stopped",
                           !.state_timer = IF go THEN 0 ELSE timer]
         [] c.state = "accelerating" ->
              LET acceleration_power ==
                      (Uniform(n1, 30000, 60000) * (10 + StdNormal(n2))) \div 10
                  speed == c.speed_mph + 30 * dt
                  go == speed >= Uniform(n3, 250, 370)
              IN [c EXCEPT !.current = -PowerToCurrent(acceleration_power),
                           !.np = n3, !.speed_mph = speed,
                           !.state = IF go THEN "cruising" ELSE "accelerating",
                           !.state_timer = IF go THEN 0 ELSE c.state_timer]
         [] c.state = "cruising" ->
              LET cruise_power == 10000 + c.speed_mph * 50
                  current == -((PowerToCurrent(cruise_power)
                                * (100 + 5 * StdNormal(n1))) \div 100)
                  timer == c.state_timer + dt
                  go == timer > Uniform(n2, 10, 30)
                  r1 == RngNext(c.random)
              IN [c EXCEPT !.current = current, !.np = n2,
                           !.random = IF go THEN r1 ELSE c.random,
                           !.state = IF ~go THEN "cruising"
                                     ELSE IF RandomAbove(r1, 30) THEN "braking"
                                     ELSE "coasting",
                           !.state_timer = IF go THEN 0 ELSE timer]
         [] c.state = "braking" ->
              LET regen_power == Uniform(n1, 10000, 30000)
                  speed == c.speed_mph - 60 * dt
                  stop == speed <= 0
              IN [c EXCEPT !.current = PowerToCurrent(regen_power), !.np = n1,
                           !.speed_mph = IF stop THEN 0 ELSE speed,
                           !.state = IF stop THEN "stopped" ELSE "braking",
                           !.state_timer = IF stop THEN 0 ELSE c.state_timer]
         [] c.state = "coasting" ->
              LET speed == c.speed_mph - 12 * dt
                  timer == c.state_timer + dt
                  go == timer > Uniform(n1, 5, 15) \/ speed <= 120
              IN [c EXCEPT !.current = -PowerToCurrent(2000), !.np = n1,
                           !.speed_mph = speed,
                           !.state = IF go THEN "braking" ELSE "coasting",
                           !.state_timer = IF go THEN 0 ELSE timer]

RECURSIVE CityLoop(_, _, _, _)
CityLoop(c, dt, samples, current_profile) ==
    IF samples <= 0
    THEN [current_profile |-> current_profile, np |-> c.np, random |-> c.random]
    ELSE LET c1 == CitySample(c, dt)
         IN CityLoop(c1, dt, samples - 1, Append(current_profile, c1.current))

\* DrivingPatternGenerator.generate_city_driving(duration_seconds, dt) with the
\* generators in state g: the profile and the generator states after it
GenerateCityDriving(duration_seconds, dt, g) ==
    CityLoop([state |-> "stopped", state_timer |-> 0, speed_mph |-> 0,
              current |-> 0, np |-> g.np_random, random |-> g.random],
             dt, duration_seconds \div dt, <<>>)

\* generate_highway_driving, the cruise loop from sample i on
RECURSIVE HighwayCruise(_, _, _, _, _, _)
HighwayCruise(i, samples, base_power, np, random, current_profile) ==
    IF i >= samples
    THEN [current_profile |-> current_profile, np |-> np, random |-> random]
    ELSE LET r1 == RngNext(random)
             r2 == RngNext(r1)
             n1 == RngNext(np)
         IN IF RandomBelow(r1, 5)
            THEN HighwayCruise(i + 1, samples, base_power, np, r1,
                               Append(current_profile, -PowerToCurrent(80000)))
            ELSE IF RandomBelow(r2, 2)
            THEN HighwayCruise(i + 1, samples, base_power, n1, r2,
                               Append(current_profile,
                                      -PowerToCurrent((base_power * Uniform(n1, 130, 180))
                                                      \div 100)))
            ELSE HighwayCruise(i + 1, samples, base_power, n1, r2,
                               Append(current_profile,
                                      -PowerToCurrent((base_power
                                                       * (100 + 3 * StdNormal(n1)))
                                                      \div 100)))

\* DrivingPatternGenerator.generate_highway_driving
GenerateHighwayDriving(duration_seconds, dt, g) ==
    LET samples == duration_seconds \div dt
        ramp == [i \in 1..Min(30, samples) |-> -PowerToCurrent(80000 - (i - 1) * 2000)]
        n1 == RngNext(g.np_random)
        cruise_speed == Uniform(n1, 560, 680)              \* tenths of mph
        base_power == 15000 + cruise_speed * 40
    IN HighwayCruise(30, samples, base_power, n1, g.random, ramp)

\* generate_eco_driving, the loop from sample i on; speeds in tenths of mph
RECURSIVE EcoLoop(_, _, _, _, _, _, _)
EcoLoop(i, samples, dt, speed_mph, target_speed, np, current_profile) ==
    IF i >= samples
    THEN [current_profile |-> current_profile, np |-> np]
    ELSE LET n1 == IF i % 300 = 0 THEN RngNext(np) ELSE np
             target == IF i % 300 = 0
                       THEN <<0, 500, 700, 900>>[ChoiceIndex(n1, 4)]
                       ELSE target_speed
             speed_diff == target - speed_mph
             accelerate == Abs(speed_diff) > 10 /\ speed_diff > 0
             decelerate == Abs(speed_diff) > 10 /\ speed_diff <= 0
             current ==
                 IF accelerate THEN -PowerToCurrent(Min(30000, speed_diff * 200))
                 ELSE IF decelerate THEN PowerToCurrent(Min(25000, Abs(speed_diff) * 150))
                 ELSE IF speed_mph > 0 THEN -PowerToCurrent(5000 + speed_mph * 25)
                 ELSE 0
             speed == IF accelerate THEN speed_mph + 20 * dt
                      ELSE IF decelerate THEN speed_mph - 50 * dt
                      ELSE speed_mph
         IN EcoLoop(i + 1, samples, dt, speed, target, n1,
                    Append(current_profile, current))

\* DrivingPatternGenerator.generate_eco_driving
GenerateEcoDriving(duration_seconds, dt, g) ==
    LET r == EcoLoop(0, duration_seconds \div dt, dt, 0, 0, g.np_random, <<>>)
    IN [current_profile |-> r.current_profile, np |-> r.np, random |-> g.random]

\* the first n elements of a sequence: seq[:n]
Take(seq, n) == SubSeq(seq, 1, Min(n, Len(seq)))

\* The segment lengths of generate_mixed_driving: int(samples * 0.3), ...
SegmentSamples(samples) ==
    <<(samples * 3) \div 10, (samples * 4) \div 10, (samples * 2) \div 10,
      samples \div 10>>

\* DrivingPatternGenerator.generate_mixed_driving(duration_seconds, dt) with
\* the generators in state g (a record [random, np_random])
GenerateMixedDriving(duration_seconds, dt, g) ==
    LET samples == duration_seconds \div dt
        seg == SegmentSamples(samples)
        a == GenerateCityDriving(seg[1] * dt, dt, g)
        b == GenerateHighwayDriving(seg[2] * dt, dt,
                                    [random |-> a.random, np_random |-> a.np])
        c == GenerateCityDriving(seg[3] * dt, dt,
                                 [random |-> b.random, np_random |-> b.np])
        d == GenerateEcoDriving(seg[4] * dt, dt,
                                [random |-> c.random, np_random |-> c.np])
    IN [current_profile |->
            Take(Take(a.current_profile, seg[1]) \o Take(b.current_profile, seg[2])
                 \o Take(c.current_profile, seg[3]) \o Take(d.current_profile, seg[4]),
                 samples),
        rng |-> [random |-> d.random, np_random |-> d.np]]

-----------------------------------------------------------------------------
(* charging_patterns.py *)

\* ChargingPatternGenerator.CHARGING_SPECS: max power in watts, efficiency in percent
CHARGING_SPECS ==
    [AC_L1 |-> [max_power_kw |-> 1400, efficiency |-> 85],
     AC_L2 |-> [max_power_kw |-> 11000, efficiency |-> 90],
     DC_FAST |-> [max_power_kw |-> 50000, efficiency |-> 95],
     SUPERCHARGER |-> [max_power_kw |-> 150000, efficiency |-> 97]]

\* generate_cc_cv_profile, lines 95-128: the current of sample i at SoC
\* current_soc (centi-percent), before the variations; p holds the parameters
\* of the call
CcCvCurrent_NoTargetCheck(i, p, current_soc) ==
    IF current_soc < p.cv_transition_soc
    THEN IF i * p.dt < 10 THEN RoundDiv(p.max_current * i * p.dt, 10) ELSE p.max_current
    ELSE RoundDiv(p.max_current * ExpNeg(current_soc - p.cv_transition_soc), 2 * Unit)
CcCvCurrent_LinearTaper(i, p, current_soc) ==
    IF current_soc >= p.target_soc THEN 0
    ELSE IF current_soc < p.cv_transition_soc
    THEN IF i * p.dt < 10 THEN RoundDiv(p.max_current * i * p.dt, 10) ELSE p.max_current
    ELSE RoundDiv(p.max_current
                    * Max(0, Unit - 100 * (current_soc - p.cv_transition_soc)),
                  2 * Unit)
CcCvCurrent(i, p, current_soc) ==
    LET power_factor ==
            IF p.charging_type # "SUPERCHARGER" THEN Unit
            ELSE IF current_soc < 2000 THEN Unit
            ELSE IF current_soc < 5000 THEN (9 * Unit) \div 10
            ELSE (8 * Unit) \div 10 - (current_soc - 5000) * 5
        cc == RoundDiv(p.max_current * power_factor, Unit)
        ramped == IF i * p.dt < 10 THEN RoundDiv(cc * i * p.dt, 10) ELSE cc
        taper_factor == ExpNeg(current_soc - p.cv_transition_soc)
        cv == RoundDiv(p.max_current * taper_factor, 2 * Unit)
    IN IF current_soc >= p.target_soc THEN 0
       ELSE IF current_soc < p.cv_transition_soc THEN ramped
       ELSE cv

\* generate_cc_cv_profile, lines 130-139: the SoC after a sample of current
CcCvSoc(p, current_soc, current) ==
    LET effective_current == RoundDiv(current * p.efficiency, 100)
        power == RoundDiv(effective_current * p.battery_voltage, 10)   \* W
        energy_delivered == RoundDiv(power * p.dt, 360)                \* 0.1 Wh
        soc_increment == RoundDiv(energy_delivered * 100, p.battery_capacity_kwh)
    IN Min(current_soc + soc_increment, 10000)

\* generate_cc_cv_profile, lines 141-147: the fluctuation and the occasional
\* dip of the reported current, np being the state of numpy.random
CcCvVariations(current, np) ==
    LET n1 == RngNext(np)
        n2 == RngNext(n1)
        n3 == RngNext(n2)
        varied == RoundDiv(current * (100 + StdNormal(n1)), 100)
        dip == RandomBelow(n2, 2)
        dipped == RoundDiv(varied * Uniform(n3, 70, 90), 100)
    IN IF current > 0
       THEN [current |-> IF dip THEN dipped ELSE varied, np |-> IF dip THEN n3 ELSE n2]
       ELSE [current |-> current, np |-> np]

\* generate_cc_cv_profile, lines 95-149: one pass of the loop, current being
\* the current of the sample before the variations
CcCvSampleOf_NoisySoc(p, current_soc, current, np) ==
    [pre_noise |-> current,
     soc |-> CcCvSoc(p, current_soc, CcCvVariations(current, np).current),
     done |-> current_soc >= p.target_soc,
     reported |-> CcCvVariations(current, np)]
CcCvSampleOf(p, current_soc, current, np) ==
    [pre_noise |-> current,
     soc |-> CcCvSoc(p, current_soc, current),
     done |-> current_soc >= p.target_soc,
     reported |-> CcCvVariations(current, np)]
CcCvSample(i, p, current_soc, np) ==
    CcCvSampleOf(p, current_soc, CcCvCurrent(i, p, current_soc), np)

\* generate_cc_cv_profile: the loop from sample i on
RECURSIVE CcCvLoop(_, _, _, _, _, _)
RECURSIVE CcCvAppend(_, _, _, _, _)
CcCvLoop(i, p, current_soc, completed, np, current_profile) ==
    IF i >= p.samples
    THEN [current_profile |-> current_profile, completed |-> completed, np |-> np,
          final_soc |-> current_soc]
    ELSE CcCvAppend(i, p, completed, current_profile, CcCvSample(i, p, current_soc, np))
CcCvAppend(i, p, completed, current_profile, sample) ==
    CcCvLoop(i + 1, p, sample.soc, completed \/ sample.done, sample.reported.np,
             Append(current_profile, sample.reported.current))

\* generate_cc_cv_profile, lines 76-92: the parameters of the call
CcCvParams(battery_voltage, charging_type, target_soc, battery_capacity_kwh, duration_seconds, dt) ==
    [charging_type |-> charging_type, target_soc |-> target_soc,
     samples |-> duration_seconds \div dt, dt |-> dt,
     battery_voltage |-> battery_voltage,
     battery_capacity_kwh |-> battery_capacity_kwh,
     efficiency |-> CHARGING_SPECS[charging_type].efficiency,
     max_current |-> RoundDiv(CHARGING_SPECS[charging_type].max_power_kw * 10,
                              battery_voltage),
     cv_transition_soc |-> IF charging_type \in {"DC_FAST", "SUPERCHARGER"}
                           THEN 8000 ELSE 8500]

\* ChargingPatternGenerator.generate_cc_cv_profile
GenerateCcCvProfile(battery_voltage, charging_type, initial_soc, target_soc, battery_capacity_kwh, duration_seconds, dt, np) ==
    CcCvLoop(0, CcCvParams(battery_voltage, charging_type, target_soc,
                           battery_capacity_kwh, duration_seconds, dt),
             initial_soc, FALSE, np, <<>>)

-----------------------------------------------------------------------------
(* anomaly_generator.py, as far as the orchestrators use it *)

\* severity_params of generate_thermal_event: rate in milli-degrees per minute,
\* peak in milli-degrees above normal_temp
SeverityParams ==
    [low |-> [rate |-> 500, peak |-> 10000],
     medium |-> [rate |-> 1000, peak |-> 20000],
     high |-> [rate |-> 2000, peak |-> 30000],
     critical |-> [rate |-> 3000, peak |-> 40000]]

\* AnomalyGenerator.generate_thermal_event: entry t of the rise phase, np0
\* being the numpy generator state at the call (one draw per entry)
ThermalRise(normal_temp, severity, t, np0) ==
    LET params == SeverityParams[severity]
        temp_rise == (params.rate * t) \div 60
        temp == normal_temp
                + (temp_rise * (100 + 5 * StdNormal(RngSkip(np0, t + 1)))) \div 100
    IN Min(temp, normal_temp + params.peak)

\* AnomalyGenerator.generate_thermal_event: entry i (from 0) of temp_profile
ThermalProfileEntry(normal_temp, duration_seconds, severity, i, np0) ==
    LET rise_duration == duration_seconds \div 2
        fall_duration == duration_seconds - rise_duration
        peak_temp == ThermalRise(normal_temp, severity, rise_duration - 1, np0)
        t == i - rise_duration
        temp_fall == ((peak_temp - normal_temp)
                      * (ExpNeg((3000 * t) \div fall_duration) \div 10)) \div 10000
    IN IF i < rise_duration
       THEN ThermalRise(normal_temp, severity, i, np0)
       ELSE normal_temp + temp_fall + Milli * StdNormal(RngSkip(np0, i + 1))

\* AnomalyGenerator.generate_sensor_glitch: entry i (from 0) of glitched_values
GlitchValue(normal_value, glitch_type, duration_samples, i, np0) ==
    CASE glitch_type = "spike" ->
           LET spike_magnitude == (normal_value * Uniform(RngNext(np0), 50, 100)) \div 10
               decay == ExpNeg((3000 * i) \div duration_samples)
           IN IF i = 0 THEN spike_magnitude
              ELSE normal_value
                   + ((spike_magnitude - normal_value) * (decay \div 10)) \div 10000
      [] glitch_type = "dropout" ->
           Uniform(RngSkip(np0, i + 1), 0, normal_value \div 10)
      [] glitch_type = "noise" ->
           normal_value + StdNormal(RngSkip(np0, i + 1)) * (normal_value \div 2)

\* the number of numpy draws generate_sensor_glitch makes
GlitchDraws(glitch_type, duration_samples) ==
    IF glitch_type = "spike" THEN 1 ELSE duration_samples

-----------------------------------------------------------------------------
(* simulator.py and simulator_v2.py: what the two orchestrators share *)

\* the default ambient_temp_profile, 20 + 10 * sin((hour - 6) * pi / 12)
AmbientTempProfile ==
    <<10000, 10341, 11340, 12929, 15000, 17412, 20000, 22588, 25000, 27071,
      28660, 29659, 30000, 29659, 28660, 27071, 25000, 22588, 20000, 17412,
      15000, 12929, 11340, 10341>>

Hours(h) == h * 3600
\* datetime.hour of a time in seconds since midnight of the first day
HourOf(t) == (t % Hours(24)) \div 3600

\* an entry of a schedule / a current_activity
Activity(type, duration, mode, charging_type, target_soc) ==
    [type |-> type, duration |-> duration, mode |-> mode,
     charging_type |-> charging_type, target_soc |-> target_soc]
Idle(duration) == Activity("idle", duration, "none", "none", 0)
Driving(duration, mode) == Activity("driving", duration, mode, "none", 0)
Charging(duration, charging_type, target_soc) ==
    Activity("charging", duration, "none", charging_type, target_soc)

\* style_map.get(driving_style, DrivingMode.MIXED)
StyleMode(driving_style) ==
    CASE driving_style = "eco" -> "eco"
      [] driving_style = "normal" -> "city"
      [] driving_style = "aggressive" -> "aggressive"
      [] OTHER -> "mixed"

\* urgency of a charge, in thousandths
Urgency(profile, soc) ==
    LET preferred_soc_min == USER_PROFILES[profile].preferred_soc_min
    IN Max(0, ((preferred_soc_min - soc) * 1000) \div preferred_soc_min)

\* hours_needed of a charge to target_soc, in seconds: energy_needed /
\* (charging_power * 0.9)
SecondsNeeded(b, charging_type, target_soc) ==
    (b.effective_capacity_kwh * (target_soc - b.soc) * 4)
        \div CHARGING_SPECS[charging_type].max_power_kw

\* __init__ of EVBatterySimulator and EVBatterySimulatorV2, called while the
\* generators are in state g; seed 0 stands for every falsy seed (None, 0)
NewSimulator(version, vehicle_id, user_profile, seed, g) ==
    LET r1 == RngNext(g.random)
        profile == IF user_profile = "None"
                   THEN UserProfile[ChoiceIndex(r1, Len(UserProfile))]
                   ELSE user_profile
        drawn == IF user_profile = "None" THEN [g EXCEPT !.random = r1] ELSE g
    IN [simulator |-> [version |-> version, vehicle_id |-> vehicle_id,
                       user_profile |-> profile, seed |-> seed],
        rng |-> IF seed # 0
                THEN [random |-> RandomSeed(seed), np_random |-> NpRandomSeed(seed)]
                ELSE drawn]

-----------------------------------------------------------------------------
(* simulator.py: the plan-ahead orchestrator *)

\* EVBatterySimulator._generate_commuter_day
GenerateCommuterDay(profile, s0) ==
    LET s1 == RngNext(s0)
        commute_time == (GetTripDistance(profile, FALSE, s1) * 9) \div 250
    IN [activities |-> <<Driving(commute_time, "mixed"), Idle(Hours(9)),
                         Driving(commute_time, "mixed")>>,
        random |-> s1]

\* EVBatterySimulator._generate_weekend_warrior_day
GenerateWeekendWarriorDay(profile, s0) ==
    LET s1 == RngNext(s0)
        half_trip_time == (GetTripDistance(profile, TRUE, s1) * 9) \div 400
    IN [activities |-> <<Idle(Hours(2)), Driving(half_trip_time, "highway"),
                         Idle(Hours(3)), Driving(half_trip_time, "highway")>>,
        random |-> s1]

\* EVBatterySimulator._generate_profile_based_day: the loop from hour on
RECURSIVE ProfileBasedHours(_, _, _, _, _, _, _)
ProfileBasedHours(profile, is_weekend, hour, remaining_hours, hours_used, s0, activities) ==
    IF hour >= 24 \/ hours_used >= remaining_hours - Hours(2)
    THEN [activities |-> activities, random |-> s0]
    ELSE LET s1 == RngNext(s0)
             s2 == RngNext(s1)
             s3 == RngNext(s2)
             s4 == RngNext(s3)
             trip_time == Max(900, (GetTripDistance(profile, is_weekend, s2) * 9) \div 400)
             mode == StyleMode(GetDrivingStyle(profile, s3))
             idle_time == Uniform(s4, 1800, 7200)
         IN IF ShouldDriveNow(profile, hour, is_weekend, s1)
            THEN ProfileBasedHours(profile, is_weekend, hour + 1, remaining_hours,
                                   hours_used + trip_time + idle_time, s4,
                                   activities \o <<Driving(trip_time, mode),
                                                   Idle(idle_time)>>)
            ELSE ProfileBasedHours(profile, is_weekend, hour + 1, remaining_hours,
                                   hours_used, s1, activities)

\* EVBatterySimulator._generate_profile_based_day
GenerateProfileBasedDay(profile, start_hour, is_weekend, s0) ==
    ProfileBasedHours(profile, is_weekend, start_hour, Hours(24 - start_hour), 0,
                      s0, <<>>)

\* the sum of the durations of a schedule
RECURSIVE TotalDuration(_)
TotalDuration(schedule) ==
    IF schedule = <<>> THEN 0
    ELSE Head(schedule).duration + TotalDuration(Tail(schedule))

\* _generate_daily_schedule, lines 225-232: fill remaining time with idle
FillRemainingTime(schedule, total_duration, random) ==
    [schedule |-> IF total_duration < Hours(24)
                  THEN Append(schedule, Idle(Hours(24) - total_duration))
                  ELSE schedule,
     random |-> random]

\* _generate_daily_schedule, lines 213-224: the charging block, of the type
\* that get_charging_type_preference returned as pref
AppendCharging(b, schedule, target_soc, pref) ==
    [schedule |->
         Append(schedule,
                Charging(Min(SecondsNeeded(b, pref.charging_type, target_soc) + 1800,
                             Hours(8)),
                         pref.charging_type, target_soc)),
     random |-> pref.random]

\* _generate_daily_schedule, lines 201-224: charge is what should_charge returned
CheckCharging(profile, b, schedule, charge) ==
    IF charge.should_charge
    THEN AppendCharging(b, schedule, charge.target_soc,
                        GetChargingTypePreference(profile, Urgency(profile, b.soc),
                                                  charge.random))
    ELSE [schedule |-> schedule, random |-> charge.random]

\* _generate_daily_schedule, lines 201-234: day is what the generator of the
\* day returned
ScheduleOfDay(profile, b, now_hour, wake_hour, day) ==
    LET with_charging(planned) ==
            FillRemainingTime(planned.schedule, TotalDuration(planned.schedule),
                              planned.random)
    IN with_charging(CheckCharging(profile, b,
                                   <<Idle(Hours(wake_hour))>> \o day.activities,
                                   ShouldCharge(profile, b.soc, now_hour, day.random)))

\* _generate_daily_schedule, lines 186-234: wake_hour is the hour of the wake
\* time and s1 the state of random after it was drawn
ScheduleFromWake(profile, b, is_weekend, now_hour, wake_hour, s1) ==
    ScheduleOfDay(profile, b, now_hour, wake_hour,
                  IF profile = COMMUTER /\ ~is_weekend
                  THEN GenerateCommuterDay(profile, s1)
                  ELSE IF profile = WEEKEND_WARRIOR /\ is_weekend
                  THEN GenerateWeekendWarriorDay(profile, s1)
                  ELSE GenerateProfileBasedDay(profile, wake_hour, is_weekend, s1))

\* EVBatterySimulator._generate_daily_schedule(is_weekend) for a battery b,
\* called at wall-clock hour now_hour with random in state s0
GenerateDailySchedule(profile, b, is_weekend, now_hour, s0) ==
    ScheduleFromWake(profile, b, is_weekend, now_hour,
                     GetWakeTime(profile, is_weekend, RngNext(s0)).hour, RngNext(s0))

\* EVBatterySimulator._create_telemetry_record(timestamp) for battery b, with
\* numpy.random in state np0: the record and the generator state after it
CreateTelemetryRecord(vehicle_id, b, timestamp, np0) ==
    LET n1 == RngNext(np0)
        n2 == RngNext(n1)
        n3 == RngNext(n2)
        n4 == RngNext(n3)
        voltage == b.voltage + RoundDiv(StdNormal(n1) * Abs(b.voltage), 100)
        current == b.current + RoundDiv(StdNormal(n2) * Abs(b.current), 100)
        temp == RoundTo(b.temperature, 100)
        temperature == temp + RoundDiv(StdNormal(n3) * Abs(temp), 100)
        temp_variation == 2 * Milli * StdNormal(n4)
    IN [record |->
            [time |-> timestamp, vehicle_id |-> vehicle_id,
             soc_percent |-> RoundTo(b.soc, 10), voltage |-> voltage,
             current |-> current, temperature |-> temperature,
             soh_percent |-> RoundTo(b.soh, 10),
             is_charging |-> FALSE, is_driving |-> FALSE,
             ambient_temp |-> b.ambient_temp,
             max_cell_temp |-> temperature + Abs(temp_variation),
             min_cell_temp |-> temperature - Abs(temp_variation)],
        np |-> n4]

\* EVBatterySimulator._find_activity_periods(records, 'is_driving', True):
\* pairs (start, end) of list positions counted from 0, end excluded, one for
\* each maximal run of driving records, in the order of the list
FindActivityPeriods(records) ==
    LET n == Len(records)
        in_period(i) == records[i + 1].is_driving
        starts == {s \in 0..(n - 1) : in_period(s) /\ (s = 0 \/ ~in_period(s - 1))}
        start(k) == CHOOSE s \in starts : Cardinality({t \in starts : t < s}) = k - 1
        end(s) == CHOOSE e \in (s + 1)..n :
                      /\ e = n \/ ~in_period(e)
                      /\ \A j \in s..(e - 1) : in_period(j)
    IN [k \in 1..Cardinality(starts) |-> <<start(k), end(start(k))>>]

\* EVBatterySimulator._inject_daily_anomalies, the thermal event (lines 386-408)
InjectThermalEvent(records, g) ==
    LET r1 == RngNext(g.random)
        r2 == RngNext(r1)
        r3 == RngNext(r2)
        r4 == RngNext(r3)
        r5 == RngNext(r4)
        driving_periods == FindActivityPeriods(records)
        period == driving_periods[ChoiceIndex(r2, Len(driving_periods))]
        start_idx == period[1] + RandInt(r3, 0, Max(0, period[2] - period[1] - 300))
        duration == RandInt(r4, 180, 600)
        severity == <<"low", "medium", "high">>[ChoiceIndex(r5, 3)]
        normal_temp == records[start_idx + 1].temperature
        temp(i) == ThermalProfileEntry(normal_temp, duration, severity, i, g.np_random)
    IN IF RandomBelow(r1, 5) /\ driving_periods # <<>>
       THEN [records |->
                 [k \in 1..Len(records) |->
                     IF k - 1 >= start_idx /\ k - 1 - start_idx < duration
                     THEN [records[k] EXCEPT
                              !.temperature = temp(k - 1 - start_idx),
                              !.max_cell_temp = temp(k - 1 - start_idx) + 2 * Milli,
                              !.min_cell_temp = temp(k - 1 - start_idx) - 2 * Milli]
                     ELSE records[k]],
             rng |-> [random |-> r5, np_random |-> RngSkip(g.np_random, duration)],
             events |-> <<"thermal_event">>]
       ELSE [records |-> records, rng |-> [g EXCEPT !.random = r1], events |-> <<>>]

\* a sensor glitch written over the current of the records
InjectSensorGlitch_OverCurrent(records, g) ==
    LET r1 == RngNext(g.random)
        r2 == RngNext(r1)
        r3 == RngNext(r2)
        r4 == RngNext(r3)
        glitch_idx == RandInt(r2, 0, Len(records) - 1)
        glitch_type == <<"spike", "dropout", "noise">>[ChoiceIndex(r3, 3)]
        duration_samples == RandInt(r4, 1, 5)
        normal_value == records[glitch_idx + 1].voltage
        val(i) == GlitchValue(normal_value, glitch_type, duration_samples, i,
                              g.np_random)
    IN IF RandomBelow(r1, 10)
       THEN [records |->
                 [k \in 1..Len(records) |->
                     IF k - 1 >= glitch_idx /\ k - 1 - glitch_idx < duration_samples
                     THEN [records[k] EXCEPT !.current = val(k - 1 - glitch_idx)]
                     ELSE records[k]],
             rng |-> [random |-> r4,
                      np_random |-> RngSkip(g.np_random,
                                            GlitchDraws(glitch_type, duration_samples))],
             events |-> <<"sensor_glitch">>]
       ELSE [records |-> records, rng |-> [g EXCEPT !.random = r1], events |-> <<>>]

\* EVBatterySimulator._inject_daily_anomalies, the sensor glitch (lines 410-424)
InjectSensorGlitch(records, g) ==
    LET r1 == RngNext(g.random)
        r2 == RngNext(r1)
        r3 == RngNext(r2)
        r4 == RngNext(r3)
        glitch_idx == RandInt(r2, 0, Len(records) - 1)
        glitch_type == <<"spike", "dropout", "noise">>[ChoiceIndex(r3, 3)]
        duration_samples == RandInt(r4, 1, 5)
        normal_value == records[glitch_idx + 1].voltage
        val(i) == GlitchValue(normal_value, glitch_type, duration_samples, i,
                              g.np_random)
    IN IF RandomBelow(r1, 10)
       THEN [records |->
                 [k \in 1..Len(records) |->
                     IF k - 1 >= glitch_idx /\ k - 1 - glitch_idx < duration_samples
                     THEN [records[k] EXCEPT !.voltage = val(k - 1 - glitch_idx)]
                     ELSE records[k]],
             rng |-> [random |-> r4,
                      np_random |-> RngSkip(g.np_random,
                                            GlitchDraws(glitch_type, duration_samples))],
             events |-> <<"sensor_glitch">>]
       ELSE [records |-> records, rng |-> [g EXCEPT !.random = r1], events |-> <<>>]

\* EVBatterySimulator._inject_daily_anomalies(telemetry_records, date)
InjectDailyAnomalies(records, g) ==
    LET thermal == InjectThermalEvent(records, g)
        glitch == InjectSensorGlitch(thermal.records, thermal.rng)
    IN [records |-> glitch.records, rng |-> glitch.rng,
        events |-> thermal.events \o glitch.events]

-----------------------------------------------------------------------------
(* simulator_v2.py: the dynamic orchestrator *)

\* EVBatterySimulatorV2._plan_charging_activity(target_soc)
PlanChargingActivity(profile, b, target_soc, s0) ==
    LET pref == GetChargingTypePreference(profile, Urgency(profile, b.soc), s0)
        seconds_needed == SecondsNeeded(b, pref.charging_type, target_soc)
        duration == IF profile = CAUTIOUS THEN Min(seconds_needed + 1800, Hours(8))
                    ELSE IF profile = SPONTANEOUS
                    THEN Min(seconds_needed \div 2, Hours(2))
                    ELSE Min(seconds_needed, Hours(4))
    IN [activity |-> Charging(duration, pref.charging_type, target_soc),
        random |-> pref.random]

\* EVBatterySimulatorV2._plan_next_activity(current_time, is_weekend)
PlanNextActivity(profile, current_time, is_weekend, s0) ==
    LET s1 == RngNext(s0)
        s2 == RngNext(s1)
        s3 == RngNext(s2)
        trip_time == Max(900, (GetTripDistance(profile, is_weekend, s2) * 9) \div 500)
    IN IF ShouldDriveNow(profile, HourOf(current_time), is_weekend, s1)
       THEN [activity |-> Driving(trip_time, StyleMode(GetDrivingStyle(profile, s3))),
             random |-> s3]
       ELSE [activity |-> Idle(Hours(1)), random |-> s1]

\* base_currents of _get_driving_current, in deci-amperes
BaseCurrent(mode) ==
    CASE mode = "city" -> -800
      [] mode = "highway" -> -1200
      [] mode = "aggressive" -> -1800
      [] mode = "eco" -> -600
      [] OTHER -> -1000

\* EVBatterySimulatorV2._get_driving_current(mode), s the numpy state it reads
GetDrivingCurrent(mode, s) ==
    BaseCurrent(mode) + StdNormal(s) * (Abs(BaseCurrent(mode)) \div 5)

\* EVBatterySimulatorV2._get_charging_current(charging_type, current_soc, target_soc)
GetChargingCurrent(specs, charging_type, current_soc, target_soc) ==
    LET max_current == RoundDiv(CHARGING_SPECS[charging_type].max_power_kw * 10,
                                specs.nominal_voltage)
    IN IF current_soc >= target_soc THEN 0
       ELSE IF current_soc < target_soc - 1000 THEN max_current
       ELSE RoundDiv(max_current * (target_soc - current_soc), 1000)

\* EVBatterySimulatorV2._create_telemetry_record(timestamp)
CreateTelemetryRecordV2_AfterClockAdvance(vehicle_id, b, timestamp, np0) ==
    LET n1 == RngNext(np0)
        n2 == RngNext(n1)
        n3 == RngNext(n2)
        voltage == b.voltage + RoundDiv(StdNormal(n1) * Abs(b.voltage), 100)
        current == b.current + RoundDiv(StdNormal(n2) * Abs(b.current), 100)
        temp == RoundTo(b.temperature, 100)
        temperature == RoundTo(temp + RoundDiv(StdNormal(n3) * Abs(temp), 100), 10)
    IN [record |->
            [time |-> timestamp + 1, vehicle_id |-> vehicle_id,
             soc_percent |-> RoundTo(b.soc, 10), soh_percent |-> RoundTo(b.soh, 10),
             voltage |-> voltage, current |-> current, temperature |-> temperature,
             power |-> RoundDiv(voltage * current, 100),
             is_charging |-> FALSE, is_driving |-> FALSE, charger_type |-> "none"],
        np |-> n3]
CreateTelemetryRecordV2(vehicle_id, b, timestamp, np0) ==
    LET n1 == RngNext(np0)
        n2 == RngNext(n1)
        n3 == RngNext(n2)
        voltage == b.voltage + RoundDiv(StdNormal(n1) * Abs(b.voltage), 100)
        current == b.current + RoundDiv(StdNormal(n2) * Abs(b.current), 100)
        temp == RoundTo(b.temperature, 100)
        temperature == RoundTo(temp + RoundDiv(StdNormal(n3) * Abs(temp), 100), 10)
    IN [record |->
            [time |-> timestamp, vehicle_id |-> vehicle_id,
             soc_percent |-> RoundTo(b.soc, 10), soh_percent |-> RoundTo(b.soh, 10),
             voltage |-> voltage, current |-> current, temperature |-> temperature,
             power |-> RoundDiv(voltage * current, 100),
             is_charging |-> FALSE, is_driving |-> FALSE, charger_type |-> "none"],
        np |-> n3]

\* [i for i, r in enumerate(records) if r[field]]: the list positions (from 0)
\* of the records whose field is True, in increasing order
Indices(records, field) ==
    LET found == {i \in 0..(Len(records) - 1) : records[i + 1][field]}
    IN [k \in 1..Cardinality(found) |->
           CHOOSE i \in found : Cardinality({j \in found : j < i}) = k - 1]

\* EVBatterySimulatorV2._inject_daily_anomalies: the loop over num_anomalies.
\* The generators of AnomalyGenerator are called with the arguments of another
\* signature and return (profile, event) tuples, so reading event.severity
\* raises AttributeError.
RECURSIVE InjectAnomaliesV2(_, _, _, _, _)
InjectAnomaliesV2(num_anomalies, records, g, events, raised) ==
    IF num_anomalies <= 0 \/ raised
    THEN [records |-> records, rng |-> g, events |-> events, raised |-> raised]
    ELSE LET r1 == RngNext(g.random)
             r2 == RngNext(r1)
             r3 == RngNext(r2)
             anomaly_type == <<"thermal", "sensor", "charging">>[ChoiceIndex(r1, 3)]
             driving_indices == Indices(records, "is_driving")
             charging_indices == Indices(records, "is_charging")
             sensor_idx == RandInt(r2, 0, Len(records) - 1)
             charging_idx == charging_indices[ChoiceIndex(r2, Len(charging_indices))]
         IN CASE anomaly_type = "thermal" ->
                   IF Len(driving_indices) > 100
                   THEN InjectAnomaliesV2(num_anomalies - 1, records,
                            [random |-> r2, np_random |-> RngSkip(g.np_random, 300)],
                            Append(events, "thermal"), TRUE)
                   ELSE InjectAnomaliesV2(num_anomalies - 1, records,
                            [g EXCEPT !.random = r1], events, raised)
              [] anomaly_type = "sensor" ->
                   InjectAnomaliesV2(num_anomalies - 1,
                       [records EXCEPT ![sensor_idx + 1].voltage =
                           (@ * Uniform(r3, 50, 150)) \div 100],
                       [random |-> r3, np_random |-> RngNext(g.np_random)],
                       Append(events, "sensor"), raised)
              [] anomaly_type = "charging" ->
                   IF charging_indices # <<>>
                   THEN InjectAnomaliesV2(num_anomalies - 1,
                            [k \in 1..Len(records) |->
                                IF k - 1 >= charging_idx /\ k - 1 < charging_idx + 600
                                   /\ records[k].is_charging
                                THEN [records[k] EXCEPT !.current = @ \div 2]
                                ELSE records[k]],
                            [random |-> r2, np_random |-> RngSkip(g.np_random, 301)],
                            Append(events, "charging"), raised)
                   ELSE InjectAnomaliesV2(num_anomalies - 1, records,
                            [g EXCEPT !.random = r1], events, raised)

\* EVBatterySimulatorV2._inject_daily_anomalies followed by the conversion of
\* the events (simulate_day, line 190), which raises for every event
InjectDailyAnomaliesV2(records, g) ==
    LET r1 == RngNext(g.random)
        r2 == RngNext(r1)
        injected == IF RandomBelow(r1, 30)
                    THEN InjectAnomaliesV2(RandInt(r2, 1, 3), records,
                                           [g EXCEPT !.random = r2], <<>>, FALSE)
                    ELSE [records |-> records, rng |-> [g EXCEPT !.random = r1],
                          events |-> <<>>, raised |-> FALSE]
    IN [injected EXCEPT !.raised = injected.raised \/ injected.events # <<>>]

-----------------------------------------------------------------------------
(* Values of the variables an operation does not produce *)

NoBattery == [vehicle_id |-> "none"]
NoResult == [temperature |-> 0, status |-> "none", power_limit |-> Unit,
             action_required |-> FALSE, recovered |-> FALSE]
NoStep == [requested_current |-> 0, dt |-> 0, soc_before |-> 0,
           temperature_before |-> 0, thermal_check |-> NoResult,
           actual_current |-> 0, voltage |-> 0, power |-> 0]
NoRng == [random |-> 0, np_random |-> 0]
NoSimulator == [pc |-> "none"]
NoRun == [vehicle_id |-> "none", telemetry |-> <<>>, events |-> <<>>, returned |-> FALSE]
NoParked == [simulator |-> NoSimulator]
NoCall == [pc |-> "none"]

\* shutdown_temp_seen after a check that returned res
SeenAfter(seen, res) ==
    IF res.recovered
    THEN res.temperature >= shutdown_temp * Milli
    ELSE seen \/ res.temperature >= shutdown_temp * Milli

-----------------------------------------------------------------------------
(* A ThermalSafetyManager fed a sequence of temperatures *)

MaxChecks == 4
CheckTemps == {44000, 45000, 45001, 49999, 50000, 55000, 59999, 60000, 61000}

InitThermal ==
    /\ VEHICLE_SPECS = VehicleCatalog
    /\ thermal_safety = NewThermalSafetyManager
    /\ battery = NoBattery
    /\ result = NoResult
    /\ last_step = NoStep
    /\ op = "init"
    /\ nsteps = 0
    /\ shutdown_temp_seen = FALSE
    /\ rng = NoRng
    /\ simulator = NoSimulator
    /\ telemetry_records = <<>>
    /\ all_telemetry = <<>>
    /\ previous = NoRun
    /\ parked = NoParked
    /\ call = NoCall

\* manager.check_temperature(temp)
Check(temp) ==
    /\ nsteps < MaxChecks
    /\ LET chk == CheckTemperature(thermal_safety, temp)
       IN /\ thermal_safety' = chk.ts
          /\ result' = chk.result
          /\ shutdown_temp_seen' = SeenAfter(shutdown_temp_seen, chk.result)
    /\ op' = "check"
    /\ nsteps' = nsteps + 1
    /\ UNCHANGED <<VEHICLE_SPECS, battery, last_step>>
    /\ UNCHANGED simvars

\* manager.reset()
Reset ==
    /\ nsteps < MaxChecks
    /\ thermal_safety' = ResetManager(thermal_safety)
    /\ shutdown_temp_seen' = FALSE
    /\ op' = "reset"
    /\ nsteps' = nsteps + 1
    /\ UNCHANGED <<VEHICLE_SPECS, battery, result, last_step>>
    /\ UNCHANGED simvars

NextThermal ==
    \/ \E temp \in CheckTemps : Check(temp)
    \/ Reset

SpecThermal == InitThermal /\ [][NextThermal]_vars

\* C1: once shutdown is active, every check with temperature > recovery_temp
\* returns Shutdown with power limit 0.0 and leaves shutdown active (also below
\* the warning threshold); a check clears shutdown only with temperature
\* <= recovery_temp, and that check returns Normal with power limit 1.0.
C1_ShutdownHysteresis ==
    [][(op' = "check" /\ thermal_safety.shutdown_active) =>
         /\ result'.temperature > recovery_temp * Milli =>
                /\ result'.status = SHUTDOWN
                /\ result'.power_limit = 0
                /\ thermal_safety'.shutdown_active
         /\ ~thermal_safety'.shutdown_active =>
                /\ result'.temperature <= recovery_temp * Milli
                /\ result'.status = NORMAL
                /\ result'.power_limit = Unit]_vars

\* a check below the warning threshold answered Shutdown
C1_Witness ==
    /\ op = "check"
    /\ thermal_safety.shutdown_active
    /\ result.status = SHUTDOWN
    /\ result.temperature > recovery_temp * Milli
    /\ result.temperature < warning_temp * Milli

\* C2: a check returns Shutdown iff some check since the last recovery (or
\* since construction), the current one included, had temperature >=
\* shutdown_temp.
C2_ShutdownIffSeen ==
    op = "check" => (result.status = SHUTDOWN <=> shutdown_temp_seen)

\* Shutdown returned for a temperature in the critical band, after a hotter check
C2_Witness ==
    /\ op = "check"
    /\ result.status = SHUTDOWN
    /\ result.temperature >= critical_temp * Milli
    /\ result.temperature < shutdown_temp * Milli
    /\ shutdown_temp_seen

\* the power limit the specification gives each status
StatusPowerLimit(status) ==
    CASE status = NORMAL -> Unit
      [] status = WARNING -> (7 * Unit) \div 10
      [] status = CRITICAL -> (3 * Unit) \div 10
      [] status = SHUTDOWN -> 0

\* C6: in every result of check_temperature the power limit is the one of the
\* returned status: Normal 1.0, Warning 0.7, Critical 0.3, Shutdown 0.0.
C6_LimitOfStatus ==
    op = "check" =>
        /\ result.status \in ThermalStatus
        /\ result.power_limit = StatusPowerLimit(result.status)

\* Shutdown answered while waiting for recovery, at a warning-band temperature
C6_Witness ==
    /\ op = "check"
    /\ result.status = SHUTDOWN
    /\ result.power_limit = 0
    /\ result.temperature >= warning_temp * Milli
    /\ result.temperature < critical_temp * Milli

-----------------------------------------------------------------------------
(* A BatteryModel driven by apply_current calls *)

MaxApply == 2
InitialSocs == {500, 8000, 9500}
InitialTemps == {-200, 25000, 59800, 61000}
InitialSohs == {10000, 9000}
RequestedCurrents == {-3000, -1000, 0, 500, 3000}
TimeSteps == {1, 60}
AmbientTemps == {-20000, 40000}

InitBattery ==
    /\ VEHICLE_SPECS = VehicleCatalog
    /\ thermal_safety = NewThermalSafetyManager
    /\ \E v \in DOMAIN VehicleCatalog, s \in InitialSocs,
          t \in InitialTemps, h \in InitialSohs :
           battery = NewBatteryModel(VehicleCatalog[v], s, t, h)
    /\ result = NoResult
    /\ last_step = NoStep
    /\ op = "init"
    /\ nsteps = 0
    /\ shutdown_temp_seen = FALSE
    /\ rng = NoRng
    /\ simulator = NoSimulator
    /\ telemetry_records = <<>>
    /\ all_telemetry = <<>>
    /\ previous = NoRun
    /\ parked = NoParked
    /\ call = NoCall

\* battery.apply_current(requested_current, dt)
Apply(requested_current, dt) ==
    /\ nsteps < MaxApply
    /\ LET specs == VEHICLE_SPECS[battery.vehicle_id]
           r == ApplyCurrent(specs, battery, thermal_safety, requested_current, dt)
       IN /\ battery' = r.battery
          /\ thermal_safety' = r.ts
          /\ result' = r.final_check
          /\ last_step' = [requested_current |-> requested_current, dt |-> dt,
                           soc_before |-> battery.soc,
                           temperature_before |-> battery.temperature,
                           thermal_check |-> r.thermal_check,
                           actual_current |-> r.actual_current,
                           voltage |-> r.voltage, power |-> r.power]
          /\ shutdown_temp_seen' =
                 SeenAfter(SeenAfter(shutdown_temp_seen, r.thermal_check), r.final_check)
    /\ op' = "apply_current"
    /\ nsteps' = nsteps + 1
    /\ UNCHANGED VEHICLE_SPECS
    /\ UNCHANGED simvars

\* battery.ambient_temp = a
SetAmbient(a) ==
    /\ nsteps < MaxApply
    /\ battery.ambient_temp # a
    /\ battery' = [battery EXCEPT !.ambient_temp = a]
    /\ op' = "set_ambient"
    /\ UNCHANGED <<VEHICLE_SPECS, thermal_safety, result, last_step, nsteps,
                   shutdown_temp_seen>>
    /\ UNCHANGED simvars

NextBattery ==
    \/ \E c \in RequestedCurrents, dt \in TimeSteps : Apply(c, dt)
    \/ \E a \in AmbientTemps : SetAmbient(a)

SpecBattery == InitBattery /\ [][NextBattery]_vars

\* C3: when the thermal check at the start of apply_current reports power
\* limit 0.0, the step delivers current 0 and power 0 and leaves SoC unchanged.
C3_ShutdownDeliversNothing ==
    (op = "apply_current" /\ last_step.thermal_check.power_limit = 0) =>
        /\ last_step.actual_current = 0
        /\ last_step.power = 0
        /\ battery.current = 0
        /\ battery.soc = last_step.soc_before

\* a non-zero request made while shutdown is active
C3_Witness ==
    /\ op = "apply_current"
    /\ last_step.thermal_check.status = SHUTDOWN
    /\ last_step.thermal_check.power_limit = 0
    /\ last_step.requested_current # 0
    /\ last_step.soc_before > 0

\* min(temperature derate, thermal-safety limit) of the last step, from the
\* temperature it started with
C5_Limit ==
    LET t == last_step.temperature_before
        derate == IF t > 45 * Milli THEN Max(Unit \div 2, Unit - (t - 45 * Milli) * 5)
                  ELSE IF t < 0 THEN Max((3 * Unit) \div 10, Unit + t * 5)
                  ELSE Unit
    IN Min(derate, last_step.thermal_check.power_limit)

\* the bound C5 puts on the magnitude of the current (deci-amperes)
C5_Bound ==
    LET specs == VEHICLE_SPECS[battery.vehicle_id]
        soc == last_step.soc_before
    IN IF last_step.requested_current > 0
       THEN LET cc == RoundDiv(specs.max_charge_current * 10 * C5_Limit, Unit)
            IN IF soc > 8000
               THEN RoundDiv(cc * Max(Unit \div 10, Unit - (soc - 8000) * 50), Unit)
               ELSE cc
       ELSE RoundDiv(Abs(specs.max_discharge_current) * 10 * C5_Limit, Unit)

\* C5: the current returned by apply_current has the sign of the request (or
\* is 0), a magnitude no larger than the request's, and no larger than
\* min(derate, limit) x max_charge_current (x the taper above 80 % SoC) when
\* charging, min(derate, limit) x |max_discharge_current| when discharging.
C5_CurrentWithinLimits ==
    op = "apply_current" =>
        LET r == last_step.requested_current
            a == last_step.actual_current
        IN /\ (r > 0 => a >= 0)
           /\ (r < 0 => a <= 0)
           /\ (r = 0 => a = 0)
           /\ Abs(a) <= Abs(r)
           /\ Abs(a) <= C5_Bound

\* a charging request above 80 % SoC cut down by the taper
C5_Witness ==
    /\ op = "apply_current"
    /\ last_step.soc_before > 8000
    /\ last_step.requested_current > 0
    /\ last_step.actual_current > 0
    /\ last_step.actual_current < last_step.requested_current
    /\ last_step.actual_current = C5_Bound

\* C7: whenever the battery temperature is >= 0 C the effective capacity
\* equals nominal_capacity_kwh x SoH/100.
C7_CapacityRestoredWhenWarm ==
    battery.temperature >= 0 =>
        battery.effective_capacity_kwh =
            RoundDiv(VEHICLE_SPECS[battery.vehicle_id].nominal_capacity_kwh * 100
                     * battery.soh, 10000)

-----------------------------------------------------------------------------
(* run_simulation and run_simulation_v2: multi-day runs of one simulator *)

\* records per simulated hour (run_simulation uses dt = 1.0: 3600 an hour)
RecordsPerHour == 6
\* the days argument of a run
MaxDays == 3
\* the time step dt of simulate_day, in seconds
SimulationDt == 3600 \div RecordsPerHour
\* the seed argument; 0 stands for the falsy seeds, None and 0
Seeds == {0, 22}
\* the states the generators can have before a run seeds them
OsEntropy == {[random |-> 4711, np_random |-> 815]}
\* date.weekday() of the first day: a Friday, so that a run has working days
\* and weekend days
StartWeekdays == {4}
\* datetime.now().hour while a run is planning a day
WallClockHours == {3, 14}
\* the user_profile argument
ProfileInputs == {UserProfile[i] : i \in 1..Len(UserProfile)} \cup {"None"}

\* date.weekday() >= 5 for the day being simulated
IsWeekend(sim) == (sim.start_weekday + sim.day) % 7 >= 5
\* the date argument of simulate_day: start_date + timedelta(days=day)
Date(sim) == Hours(24) * sim.day

InitSimulation ==
    /\ VEHICLE_SPECS = VehicleCatalog
    /\ thermal_safety = NewThermalSafetyManager
    /\ \E version \in {"v1", "v2"}, vehicle_id \in DOMAIN VehicleCatalog,
          user_profile \in ProfileInputs, seed \in Seeds, g \in OsEntropy,
          weekday \in StartWeekdays, include_anomalies \in BOOLEAN :
           LET new == NewSimulator(version, vehicle_id, user_profile, seed, g)
           IN /\ simulator =
                    [version |-> version, vehicle_id |-> vehicle_id,
                     user_profile |-> new.simulator.user_profile, seed |-> seed,
                     days |-> MaxDays, start_weekday |-> weekday,
                     include_anomalies |-> include_anomalies,
                     pc |-> "simulate_day", day |-> 0, current_time |-> 0,
                     schedule |-> <<>>, activity |-> 0, current_profile |-> <<>>,
                     current_activity |-> Idle(0), activity_end_time |-> 0,
                     events |-> <<>>]
              /\ rng = new.rng
              /\ battery = NewBatteryModel(VehicleCatalog[vehicle_id],
                                           8000, 25 * Milli, 10000)
    /\ result = NoResult
    /\ last_step = NoStep
    /\ op = "init"
    /\ nsteps = 0
    /\ shutdown_temp_seen = FALSE
    /\ telemetry_records = <<>>
    /\ all_telemetry = <<>>
    /\ previous = NoRun
    /\ parked = NoParked
    /\ call = NoCall

\* self.battery.apply_current(requested_current, dt) inside simulate_day: r is
\* what ApplyCurrent computes for the battery b the call is made on
Applied(r, b, requested_current) ==
    /\ battery' = r.battery
    /\ thermal_safety' = r.ts
    /\ result' = r.final_check
    /\ last_step' = [requested_current |-> requested_current, dt |-> SimulationDt,
                     soc_before |-> b.soc, temperature_before |-> b.temperature,
                     thermal_check |-> r.thermal_check,
                     actual_current |-> r.actual_current,
                     voltage |-> r.voltage, power |-> r.power]
    /\ shutdown_temp_seen' =
           SeenAfter(SeenAfter(shutdown_temp_seen, r.thermal_check), r.final_check)
    /\ op' = "apply_current"

\* EVBatterySimulator.simulate_day, lines 101-105: g is the schedule of the day
\* and the state of random after it was generated
StartDay(g) ==
    /\ simulator' = [simulator EXCEPT !.pc = "schedule",
                                      !.schedule = g.schedule,
                                      !.activity = 1,
                                      !.current_time = Date(simulator),
                                      !.current_profile = <<>>]
    /\ rng' = [rng EXCEPT !.random = g.random]

\* EVBatterySimulator.simulate_day, lines 87-105: the schedule of the day
SimulateDay ==
    /\ simulator.pc = "simulate_day"
    /\ simulator.version = "v1"
    /\ \E now_hour \in WallClockHours :
          StartDay(GenerateDailySchedule(simulator.user_profile, battery,
                                         IsWeekend(simulator), now_hour, rng.random))
    /\ telemetry_records' = <<>>
    /\ op' = "simulate_day"
    /\ UNCHANGED <<call, previous, parked, VEHICLE_SPECS, thermal_safety, battery, result, last_step, nsteps,
                   shutdown_temp_seen, all_telemetry>>

\* generate_cc_cv_profile as simulate_day calls it (lines 139-147): the
\* current profile and the generators after it
ChargingProfile(charging) ==
    [current_profile |-> charging.current_profile,
     rng |-> [rng EXCEPT !.np_random = charging.np]]

\* EVBatterySimulator.simulate_day, lines 116-151: the current profile of an
\* activity and the generators after it
CurrentProfile(activity, specs) ==
    CASE activity.type = "idle" ->
             [current_profile |-> [i \in 1..(activity.duration \div SimulationDt) |-> 0],
              rng |-> rng]
      [] activity.type = "driving" ->
             GenerateMixedDriving(activity.duration, SimulationDt, rng)
      [] activity.type = "charging" ->
             ChargingProfile(
                 GenerateCcCvProfile(specs.nominal_voltage, activity.charging_type,
                                     battery.soc, activity.target_soc,
                                     battery.effective_capacity_kwh, activity.duration,
                                     SimulationDt, rng.np_random))

\* the loop over the current profile p.current_profile begins; an empty
\* profile leaves the loop at once
BeginActivity(p) ==
    /\ rng' = p.rng
    /\ simulator' = [simulator EXCEPT
                        !.current_profile = p.current_profile,
                        !.pc = IF p.current_profile = <<>> THEN "schedule" ELSE "emit",
                        !.activity = IF p.current_profile = <<>> THEN @ + 1 ELSE @]

\* EVBatterySimulator.simulate_day, lines 107-151: the head of the loop over
\* the schedule, up to the current profile of the activity
NextActivity ==
    /\ simulator.pc = "schedule"
    /\ simulator.version = "v1"
    /\ simulator.activity <= Len(simulator.schedule)
    /\ battery' = [battery EXCEPT !.ambient_temp =
                      AmbientTempProfile[HourOf(simulator.current_time) + 1]]
    /\ BeginActivity(CurrentProfile(simulator.schedule[simulator.activity],
                                    VEHICLE_SPECS[simulator.vehicle_id]))
    /\ op' = "next_activity"
    /\ UNCHANGED <<call, previous, parked, VEHICLE_SPECS, thermal_safety, result, last_step, nsteps,
                   shutdown_temp_seen, telemetry_records, all_telemetry>>

\* EVBatterySimulator.simulate_day, lines 120-121, 136-137, 154-157: the
\* record c.record of the step, with the flags of the activity
AppendRecord(activity, current, c) ==
    /\ telemetry_records' =
           Append(telemetry_records,
                  [c.record EXCEPT
                      !.is_driving = activity.type = "driving",
                      !.is_charging = activity.type = "charging" /\ current > 0])
    /\ rng' = [rng EXCEPT !.np_random = c.np]

\* r is what apply_current did for the current of the step
RecordStep(activity, current, r) ==
    /\ Applied(r, battery, current)
    /\ AppendRecord(activity, current,
                    CreateTelemetryRecord(simulator.vehicle_id, r.battery,
                                          simulator.current_time, rng.np_random))

\* EVBatterySimulator.simulate_day: one pass of the loop over the current
\* profile of an activity (lines 118-121, 131-137, 154-159)
ExecuteStep ==
    /\ simulator.pc = "emit"
    /\ simulator.version = "v1"
    /\ RecordStep(simulator.schedule[simulator.activity],
                  Head(simulator.current_profile),
                  ApplyCurrent(VEHICLE_SPECS[simulator.vehicle_id], battery,
                               thermal_safety, Head(simulator.current_profile),
                               SimulationDt))
    /\ simulator' = [simulator EXCEPT
                        !.current_time = @ + SimulationDt,
                        !.current_profile = Tail(@),
                        !.pc = IF Len(simulator.current_profile) = 1
                               THEN "schedule" ELSE "emit",
                        !.activity = IF Len(simulator.current_profile) = 1
                                     THEN @ + 1 ELSE @]
    /\ UNCHANGED <<call, previous, parked, VEHICLE_SPECS, nsteps, all_telemetry>>

\* simulate_day returns records and events, and run_simulation appends the day
\* (lines 161-175 and 545-558)
ReturnDay(records, g, events) ==
    /\ telemetry_records' = records
    /\ all_telemetry' = Append(all_telemetry, records)
    /\ rng' = g
    /\ simulator' = [simulator EXCEPT
                        !.day = @ + 1,
                        !.pc = IF simulator.day + 1 >= simulator.days
                               THEN "done" ELSE "simulate_day",
                        !.events = @ \o events]
ReturnInjectedDay(injected) ==
    ReturnDay(injected.records, injected.rng, injected.events)

\* EVBatterySimulator.simulate_day, lines 161-175, and the loop of
\* run_simulation that receives the day (lines 545-558)
FinishDay ==
    /\ simulator.pc = "schedule"
    /\ simulator.version = "v1"
    /\ simulator.activity > Len(simulator.schedule)
    /\ IF simulator.include_anomalies /\ Len(telemetry_records) > 0
       THEN ReturnInjectedDay(InjectDailyAnomalies(telemetry_records, rng))
       ELSE ReturnDay(telemetry_records, rng, <<>>)
    /\ op' = "finish_day"
    /\ UNCHANGED <<call, previous, parked, VEHICLE_SPECS, thermal_safety, battery, result, last_step, nsteps,
                   shutdown_temp_seen>>

\* EVBatterySimulatorV2.simulate_day, lines 86-108
SimulateDayV2 ==
    /\ simulator.pc = "simulate_day"
    /\ simulator.version = "v2"
    /\ simulator' = [simulator EXCEPT !.pc = "loop",
                                      !.current_time = Date(simulator),
                                      !.activity_end_time = Date(simulator),
                                      !.current_activity = Idle(0)]
    /\ telemetry_records' = <<>>
    /\ op' = "simulate_day"
    /\ UNCHANGED <<call, previous, parked, VEHICLE_SPECS, thermal_safety, battery, result, last_step, nsteps,
                   shutdown_temp_seen, rng, all_telemetry>>

\* simulate_day where what should_charge returned is not read
ChooseActivity_IgnoresShouldCharge(profile, b, now, is_weekend, charge) ==
    PlanNextActivity(profile, now, is_weekend, charge.random)

\* EVBatterySimulatorV2.simulate_day, lines 120-129: the next activity, charge
\* being what should_charge returned
ChooseActivity(profile, b, now, is_weekend, charge) ==
    IF charge.should_charge /\ b.soc < charge.target_soc - 500
    THEN PlanChargingActivity(profile, b, charge.target_soc, charge.random)
    ELSE PlanNextActivity(profile, now, is_weekend, charge.random)

\* EVBatterySimulatorV2.simulate_day, lines 131-137: the planned activity, cut
\* at the end of the day, and the time it ends
ClipToEndOfDay(now, end_time, planned) ==
    [activity |-> IF now + planned.activity.duration > end_time
                  THEN [planned.activity EXCEPT !.duration = end_time - now]
                  ELSE planned.activity,
     activity_end_time |-> Min(now + planned.activity.duration, end_time),
     random |-> planned.random]

\* EVBatterySimulatorV2.simulate_day, lines 116-137: the activity of a pass at
\* time now for a battery b, with random in state s0
ActivityOfPass(sim, b, now, s0) ==
    IF now >= sim.activity_end_time
    THEN ClipToEndOfDay(now, Date(sim) + Hours(24),
                        ChooseActivity(sim.user_profile, b, now, IsWeekend(sim),
                                       ShouldCharge(sim.user_profile, b.soc,
                                                    HourOf(now), s0)))
    ELSE [activity |-> sim.current_activity,
          activity_end_time |-> sim.activity_end_time,
          random |-> s0]

\* EVBatterySimulatorV2.simulate_day, lines 155-170: a charging pass charges
\* while the current is positive and the target is not reached
ChargingRequest(charging_current, below_target, np0) ==
    [current |-> IF charging_current > 0 /\ below_target THEN charging_current ELSE 0,
     charging |-> charging_current > 0 /\ below_target,
     np |-> np0]

\* EVBatterySimulatorV2.simulate_day, lines 139-170: the current a pass asks
\* for, whether it charges, and numpy.random after it
RequestedCurrent(specs, b, activity, np0) ==
    CASE activity.type = "idle" -> [current |-> 0, charging |-> FALSE, np |-> np0]
      [] activity.type = "driving" ->
             [current |-> GetDrivingCurrent(activity.mode, RngNext(np0)),
              charging |-> FALSE, np |-> RngNext(np0)]
      [] activity.type = "charging" ->
             ChargingRequest(GetChargingCurrent(specs, activity.charging_type, b.soc,
                                                activity.target_soc),
                             b.soc < activity.target_soc, np0)

\* EVBatterySimulatorV2.simulate_day, lines 142-147, 160-170, 173-175: the
\* record c.record of the pass, with the flags of the activity
AppendRecordV2(plan, request, c) ==
    /\ telemetry_records' =
           Append(telemetry_records,
                  [c.record EXCEPT
                      !.is_driving = plan.activity.type = "driving",
                      !.is_charging = request.charging,
                      !.charger_type = IF request.charging
                                       THEN plan.activity.charging_type
                                       ELSE "none"])
    /\ rng' = [random |-> plan.random, np_random |-> c.np]

\* a pass that leaves the end of a charging activity where it was planned
RecordPass_KeepsPlannedEnd(b, plan, request, r) ==
    /\ Applied(r, b, request.current)
    /\ AppendRecordV2(plan, request,
                      CreateTelemetryRecordV2(simulator.vehicle_id, r.battery,
                                              simulator.current_time, request.np))
    /\ simulator' = [simulator EXCEPT
                        !.current_activity = plan.activity,
                        !.activity_end_time = plan.activity_end_time,
                        !.current_time = @ + SimulationDt]

\* r is what apply_current did for the current of the pass on battery b; a
\* charging activity that does not charge ends now (line 170)
RecordPass(b, plan, request, r) ==
    /\ Applied(r, b, request.current)
    /\ AppendRecordV2(plan, request,
                      CreateTelemetryRecordV2(simulator.vehicle_id, r.battery,
                                              simulator.current_time, request.np))
    /\ simulator' = [simulator EXCEPT
                        !.current_activity = plan.activity,
                        !.activity_end_time =
                            IF plan.activity.type = "charging" /\ ~request.charging
                            THEN simulator.current_time
                            ELSE plan.activity_end_time,
                        !.current_time = @ + SimulationDt]

ApplyRequest(b, plan, request) ==
    RecordPass(b, plan, request,
               ApplyCurrent(VEHICLE_SPECS[simulator.vehicle_id], b, thermal_safety,
                            request.current, SimulationDt))

ExecuteActivity(b, plan) ==
    ApplyRequest(b, plan,
                 RequestedCurrent(VEHICLE_SPECS[simulator.vehicle_id], b,
                                  plan.activity, rng.np_random))

\* the battery with the ambient temperature of the hour (lines 113-114)
AtAmbient(b, now) == [b EXCEPT !.ambient_temp = AmbientTempProfile[HourOf(now) + 1]]

\* EVBatterySimulatorV2.simulate_day: one pass of the main loop (lines 111-179)
StepV2 ==
    /\ simulator.pc = "loop"
    /\ simulator.version = "v2"
    /\ simulator.current_time < Date(simulator) + Hours(24)
    /\ ExecuteActivity(AtAmbient(battery, simulator.current_time),
                       ActivityOfPass(simulator,
                                      AtAmbient(battery, simulator.current_time),
                                      simulator.current_time, rng.random))
    /\ UNCHANGED <<call, previous, parked, VEHICLE_SPECS, nsteps, all_telemetry>>

\* _inject_daily_anomalies, or the conversion of its events, raised: the
\* exception leaves simulate_day and run_simulation_v2
RaiseFromDay(injected) ==
    /\ telemetry_records' = injected.records
    /\ all_telemetry' = all_telemetry
    /\ rng' = injected.rng
    /\ simulator' = [simulator EXCEPT !.pc = "raised",
                                      !.events = @ \o injected.events]
ReturnInjectedDayV2(injected) ==
    IF injected.raised THEN RaiseFromDay(injected) ELSE ReturnInjectedDay(injected)

\* EVBatterySimulatorV2.simulate_day, lines 181-195, and the loop of
\* run_simulation_v2 that receives the day (lines 421-432)
FinishDayV2 ==
    /\ simulator.pc = "loop"
    /\ simulator.version = "v2"
    /\ simulator.current_time >= Date(simulator) + Hours(24)
    /\ IF simulator.include_anomalies /\ Len(telemetry_records) > 0
       THEN ReturnInjectedDayV2(InjectDailyAnomaliesV2(telemetry_records, rng))
       ELSE ReturnDay(telemetry_records, rng, <<>>)
    /\ op' = "finish_day"
    /\ UNCHANGED <<call, previous, parked, VEHICLE_SPECS, thermal_safety, battery, result, last_step, nsteps,
                   shutdown_temp_seen>>

NextSimulation ==
    \/ SimulateDay
    \/ NextActivity
    \/ ExecuteStep
    \/ FinishDay
    \/ SimulateDayV2
    \/ StepV2
    \/ FinishDayV2

SpecSimulation == InitSimulation /\ [][NextSimulation]_vars

-----------------------------------------------------------------------------
(* Properties of the telemetry of a run *)

\* ceil(24 h / dt): the passes of a loop that runs while current_time < end_time
SamplesPerDay == (Hours(24) + SimulationDt - 1) \div SimulationDt

\* pd.concat(all_telemetry, ignore_index=True)
RECURSIVE Concat(_)
Concat(frames) == IF frames = <<>> THEN <<>> ELSE Head(frames) \o Concat(Tail(frames))

SocSohInRange(record) ==
    /\ record.soc_percent >= 0
    /\ record.soc_percent <= 100 * 100
    /\ record.soh_percent >= 70 * 100
    /\ record.soh_percent <= 100 * 100

\* C4: in every telemetry record of every run, of either simulator, soc_percent
\* is within [0, 100] and soh_percent within [70, 100]: in the records of the
\* day being simulated, before and after anomaly injection, and in the days
\* already handed to run_simulation.
C4_SocSohWithinRange ==
    /\ \A i \in 1..Len(telemetry_records) : SocSohInRange(telemetry_records[i])
    /\ \A d \in 1..Len(all_telemetry) :
           \A i \in 1..Len(all_telemetry[d]) : SocSohInRange(all_telemetry[d][i])

\* a run has drained the battery: the step asked for a discharge that would
\* take the SoC below zero, and the record of that step reports 0 %
C4_Witness ==
    /\ simulator.pc \in {"emit", "schedule", "loop"}
    /\ telemetry_records # <<>>
    /\ telemetry_records[Len(telemetry_records)].soc_percent = 0
    /\ last_step.actual_current < 0
    /\ last_step.soc_before > 0

\* the records of one day carry the timestamps date, date + dt, date + 2 dt, ...
OnePerStep(records, date) ==
    \A k \in 1..Len(records) : records[k].time = date + (k - 1) * SimulationDt

\* C8: EVBatterySimulatorV2.simulate_day emits exactly one record per time step:
\* throughout the main loop record k (from 0) carries date + k * dt and the
\* clock stands one step after the last record, so the loop ends with one
\* record for each step of the day (86400 for dt = 1), whatever was planned,
\* clipped at the end of the day or ended early; the days that run_simulation_v2
\* has received are such days.
C8_OneRecordPerStep ==
    simulator.version = "v2" =>
        /\ simulator.pc = "loop" =>
               /\ OnePerStep(telemetry_records, Date(simulator))
               /\ simulator.current_time =
                      Date(simulator) + Len(telemetry_records) * SimulationDt
               /\ simulator.current_time >= Date(simulator) + Hours(24)
                      => Len(telemetry_records) = SamplesPerDay
        /\ \A d \in 1..Len(all_telemetry) :
               /\ Len(all_telemetry[d]) = SamplesPerDay
               /\ OnePerStep(all_telemetry[d], Hours(24) * (d - 1))

\* a charging activity has just been ended early: the pass that found the
\* target reached emitted a record that is not charging and moved the end of
\* the activity to now
C8_Witness ==
    /\ simulator.version = "v2"
    /\ simulator.pc = "loop"
    /\ Len(telemetry_records) > 1
    /\ simulator.current_activity.type = "charging"
    /\ simulator.activity_end_time = simulator.current_time - SimulationDt
    /\ ~telemetry_records[Len(telemetry_records)].is_charging
    /\ telemetry_records[Len(telemetry_records) - 1].is_charging

\* C9: the schedule that _generate_daily_schedule returns totals exactly 24
\* hours, for every profile, day of the week, wake time, sequence of trips and
\* charging decision.
C9_ScheduleTotals24Hours ==
    (simulator.version = "v1" /\ simulator.pc \in {"schedule", "emit"}) =>
        TotalDuration(simulator.schedule) = Hours(24)

\* C10: in the telemetry that run_simulation concatenates, timestamps are
\* strictly increasing over the whole sequence, every record of day d lies in
\* [start of day d, start of day d + 1), and no two records share the same
\* (vehicle_id, time).
C10_TimestampsStrictlyIncreasing ==
    simulator.version = "v1" =>
        LET telemetry == Concat(all_telemetry)
        IN /\ \A i \in 1..(Len(telemetry) - 1) :
                  telemetry[i].time < telemetry[i + 1].time
           /\ \A d \in 1..Len(all_telemetry) :
                  \A i \in 1..Len(all_telemetry[d]) :
                      /\ all_telemetry[d][i].time >= Hours(24) * (d - 1)
                      /\ all_telemetry[d][i].time < Hours(24) * d
           /\ Cardinality({<<telemetry[i].vehicle_id, telemetry[i].time>> :
                               i \in 1..Len(telemetry)}) = Len(telemetry)

-----------------------------------------------------------------------------
(* run_simulation called twice with the same arguments *)

\* the vehicle_id and user_profile arguments of the two calls
RepeatVehicles == {"VEH001"}
RepeatProfiles == {UserProfile[i] : i \in 1..Len(UserProfile)}

\* run_simulation, lines 538-543: the simulator new.simulator at the start of
\* the loop over the days
StartOfRun(new, weekday, include_anomalies) ==
    [version |-> new.simulator.version, vehicle_id |-> new.simulator.vehicle_id,
     user_profile |-> new.simulator.user_profile, seed |-> new.simulator.seed,
     days |-> MaxDays, start_weekday |-> weekday,
     include_anomalies |-> include_anomalies,
     pc |-> "simulate_day", day |-> 0, current_time |-> 0,
     schedule |-> <<>>, activity |-> 0, current_profile |-> <<>>,
     current_activity |-> Idle(0), activity_end_time |-> 0, events |-> <<>>]

\* the first call, in a process that has just started
InitRepeat ==
    /\ VEHICLE_SPECS = VehicleCatalog
    /\ thermal_safety = NewThermalSafetyManager
    /\ \E vehicle_id \in RepeatVehicles, user_profile \in RepeatProfiles,
          seed \in Seeds, g \in OsEntropy, weekday \in StartWeekdays,
          include_anomalies \in BOOLEAN :
           /\ simulator = StartOfRun(NewSimulator("v1", vehicle_id, user_profile, seed, g),
                                     weekday, include_anomalies)
           /\ rng = NewSimulator("v1", vehicle_id, user_profile, seed, g).rng
           /\ battery = NewBatteryModel(VehicleCatalog[vehicle_id], 8000, 25 * Milli, 10000)
    /\ result = NoResult
    /\ last_step = NoStep
    /\ op = "init"
    /\ nsteps = 0
    /\ shutdown_temp_seen = FALSE
    /\ telemetry_records = <<>>
    /\ all_telemetry = <<>>
    /\ previous = NoRun
    /\ parked = NoParked
    /\ call = NoCall

\* run_simulation, lines 538-543, of the second call: new is what __init__ gives
SecondRun(new) ==
    /\ simulator' = StartOfRun(new, simulator.start_weekday,
                               simulator.include_anomalies)
    /\ rng' = new.rng

\* run_simulation returns (lines 561-576) and is called again with the same
\* arguments, in the same process or in one that has just started
RunAgain ==
    /\ simulator.pc = "done"
    /\ ~previous.returned
    /\ previous' = [vehicle_id |-> simulator.vehicle_id, telemetry |-> all_telemetry,
                    events |-> simulator.events, returned |-> TRUE]
    /\ \E g \in OsEntropy \cup {rng} :
          SecondRun(NewSimulator("v1", simulator.vehicle_id, simulator.user_profile,
                                 simulator.seed, g))
    /\ battery' = NewBatteryModel(VEHICLE_SPECS[simulator.vehicle_id],
                                  8000, 25 * Milli, 10000)
    /\ thermal_safety' = NewThermalSafetyManager
    /\ result' = NoResult
    /\ last_step' = NoStep
    /\ shutdown_temp_seen' = FALSE
    /\ telemetry_records' = <<>>
    /\ all_telemetry' = <<>>
    /\ op' = "run_simulation"
    /\ UNCHANGED <<VEHICLE_SPECS, nsteps, parked, call>>

NextRepeat ==
    \/ SimulateDay
    \/ NextActivity
    \/ ExecuteStep
    \/ FinishDay
    \/ RunAgain

SpecRepeat == InitRepeat /\ [][NextRepeat]_vars

\* C11: two calls of run_simulation with the same vehicle, profile, day count
\* and seed return the same records and the same events
C11_SeededRunsIdentical ==
    (simulator.pc = "done" /\ previous.returned)
        => (all_telemetry = previous.telemetry /\ simulator.events = previous.events)

-----------------------------------------------------------------------------
(* Two vehicles simulated in one process, their calls interleaved *)

\* the days of a run of the fleet
FleetDays == 1
\* the vehicle that is compared with its run alone, and the other vehicle
FleetVehicle == "VEH001"
OtherVehicle == "VEH002"
OtherProfiles == {CAUTIOUS, "None"}

\* the first vehicle simulated alone, in a process that has just started
InitFleet ==
    /\ VEHICLE_SPECS = VehicleCatalog
    /\ thermal_safety = NewThermalSafetyManager
    /\ \E user_profile \in RepeatProfiles, seed \in Seeds, g \in OsEntropy,
          weekday \in StartWeekdays :
           /\ simulator =
                  [StartOfRun(NewSimulator("v1", FleetVehicle, user_profile, seed, g),
                              weekday, FALSE) EXCEPT !.days = FleetDays]
           /\ rng = NewSimulator("v1", FleetVehicle, user_profile, seed, g).rng
    /\ battery = NewBatteryModel(VehicleCatalog[FleetVehicle], 8000, 25 * Milli, 10000)
    /\ result = NoResult
    /\ last_step = NoStep
    /\ op = "init"
    /\ nsteps = 0
    /\ shutdown_temp_seen = FALSE
    /\ telemetry_records = <<>>
    /\ all_telemetry = <<>>
    /\ previous = NoRun
    /\ parked = NoParked
    /\ call = NoCall

\* a simulator between two of its calls, with its battery and its records
Parked(sim, b, ts, records, telemetry) ==
    [simulator |-> sim, battery |-> b, thermal_safety |-> ts,
     telemetry_records |-> records, all_telemetry |-> telemetry]

\* the simulator new.simulator, just constructed, becomes the one that executes
Activate(new, weekday) ==
    /\ simulator' = [StartOfRun(new, weekday, FALSE) EXCEPT !.days = FleetDays]
    /\ battery' = NewBatteryModel(VEHICLE_SPECS[new.simulator.vehicle_id],
                                  8000, 25 * Milli, 10000)
    /\ thermal_safety' = NewThermalSafetyManager
    /\ telemetry_records' = <<>>
    /\ all_telemetry' = <<>>

\* the simulator new.simulator, just constructed, waits for its first call
Park(new, weekday) ==
    parked' = Parked([StartOfRun(new, weekday, FALSE) EXCEPT !.days = FleetDays],
                     NewBatteryModel(VEHICLE_SPECS[new.simulator.vehicle_id],
                                     8000, 25 * Milli, 10000),
                     NewThermalSafetyManager, <<>>, <<>>)

\* EVBatterySimulator.__init__ of the two vehicles, one after the other: second
\* is constructed with the generators as the construction of first left them
ConstructBoth(first, second, weekday) ==
    /\ rng' = second.rng
    /\ IF first.simulator.vehicle_id = FleetVehicle
       THEN Activate(first, weekday) /\ Park(second, weekday)
       ELSE Activate(second, weekday) /\ Park(first, weekday)

ConstructSecond(first, vehicle_id, user_profile, seed, weekday) ==
    ConstructBoth(first, NewSimulator("v1", vehicle_id, user_profile, seed, first.rng),
                  weekday)

\* the run of the first vehicle alone has returned; the process constructs a
\* simulator for each of the two vehicles, in either order
StartFleet ==
    /\ simulator.pc = "done"
    /\ ~previous.returned
    /\ previous' = [vehicle_id |-> simulator.vehicle_id, telemetry |-> all_telemetry,
                    events |-> simulator.events, returned |-> TRUE]
    /\ \E g \in OsEntropy, other_profile \in OtherProfiles, other_seed \in Seeds :
          \/ ConstructSecond(NewSimulator("v1", FleetVehicle, simulator.user_profile,
                                          simulator.seed, g),
                             OtherVehicle, other_profile, other_seed,
                             simulator.start_weekday)
          \/ ConstructSecond(NewSimulator("v1", OtherVehicle, other_profile,
                                          other_seed, g),
                             FleetVehicle, simulator.user_profile, simulator.seed,
                             simulator.start_weekday)
    /\ result' = NoResult
    /\ last_step' = NoStep
    /\ shutdown_temp_seen' = FALSE
    /\ op' = "construct"
    /\ UNCHANGED <<VEHICLE_SPECS, nsteps, call>>

\* between two calls of simulate_day the caller turns to the other simulator;
\* the generators and the vehicle catalog belong to the process
Switch ==
    /\ parked # NoParked
    /\ simulator.pc \in {"simulate_day", "done"}
    /\ parked.simulator.pc = "simulate_day"
    /\ simulator' = parked.simulator
    /\ battery' = parked.battery
    /\ thermal_safety' = parked.thermal_safety
    /\ telemetry_records' = parked.telemetry_records
    /\ all_telemetry' = parked.all_telemetry
    /\ parked' = Parked(simulator, battery, thermal_safety, telemetry_records,
                        all_telemetry)
    /\ op' = "switch"
    /\ UNCHANGED <<VEHICLE_SPECS, rng, result, last_step, nsteps, shutdown_temp_seen,
                   previous, call>>

\* test_thermal_safety_extreme, lines 23-24: the caller changes the specs of
\* the other vehicle's battery, which is its entry of the vehicle catalog
ModifySpecs ==
    /\ parked # NoParked
    /\ simulator.vehicle_id = OtherVehicle
    /\ simulator.pc = "simulate_day"
    /\ VEHICLE_SPECS[OtherVehicle].thermal_mass # 50
    /\ VEHICLE_SPECS' = [VEHICLE_SPECS EXCEPT ![OtherVehicle].thermal_mass = 50,
                                              ![OtherVehicle].internal_resistance = 200]
    /\ op' = "modify_specs"
    /\ UNCHANGED <<thermal_safety, battery, result, last_step, nsteps,
                   shutdown_temp_seen, simvars>>

NextFleet ==
    \/ SimulateDay
    \/ NextActivity
    \/ ExecuteStep
    \/ FinishDay
    \/ StartFleet
    \/ Switch
    \/ ModifySpecs

SpecFleet == InitFleet /\ [][NextFleet]_vars

\* the records the first vehicle has returned, whether its simulator executes
\* or waits
FleetVehicleRun ==
    IF simulator.vehicle_id = FleetVehicle
    THEN [pc |-> simulator.pc, telemetry |-> all_telemetry]
    ELSE [pc |-> parked.simulator.pc, telemetry |-> parked.all_telemetry]

\* C12: a vehicle simulated in one process with another vehicle, their calls
\* interleaved, returns the records it returns when simulated alone
C12_InterleavedEqualsAlone ==
    (previous.returned /\ FleetVehicleRun.pc = "done")
        => FleetVehicleRun.telemetry = previous.telemetry

-----------------------------------------------------------------------------
(* run_simulation and run_simulation_v2 from the call on: the construction *)

\* the vehicle_id argument: the identifiers of the catalog and others
VehicleIdInputs == DOMAIN VehicleCatalog \cup {"VEH999", ""}
ConstructProfiles == {CAUTIOUS, WEEKEND_WARRIOR, "None"}

\* __init__ of both simulators, lines 39-44 (38-43 in simulator_v2.py): the
\* BatterySpecs the simulator and its battery are built on, or the ValueError
LookupSpecs_Default(vehicle_id, catalog) ==
    [raised |-> "none",
     specs |-> IF vehicle_id \in DOMAIN catalog THEN catalog[vehicle_id]
               ELSE catalog["VEH001"]]
LookupSpecs(vehicle_id, catalog) ==
    IF vehicle_id \notin DOMAIN catalog
    THEN [raised |-> "ValueError"]
    ELSE [raised |-> "none", specs |-> catalog[vehicle_id]]

\* run_simulation or run_simulation_v2 has been called: nothing exists yet
\* but the arguments
InitConstruct ==
    /\ VEHICLE_SPECS = VehicleCatalog
    /\ thermal_safety = NewThermalSafetyManager
    /\ battery = NoBattery
    /\ \E version \in {"v1", "v2"}, vehicle_id \in VehicleIdInputs,
          user_profile \in ConstructProfiles, seed \in Seeds,
          weekday \in StartWeekdays, include_anomalies \in BOOLEAN :
           simulator = [pc |-> "__init__", version |-> version,
                        vehicle_id |-> vehicle_id, user_profile |-> user_profile,
                        seed |-> seed, start_weekday |-> weekday,
                        include_anomalies |-> include_anomalies]
    /\ rng \in OsEntropy
    /\ result = NoResult
    /\ last_step = NoStep
    /\ op = "init"
    /\ nsteps = 0
    /\ shutdown_temp_seen = FALSE
    /\ telemetry_records = <<>>
    /\ all_telemetry = <<>>
    /\ previous = NoRun
    /\ parked = NoParked
    /\ call = NoCall

\* __init__ after the lookup, lines 41-66, and the start of the run
Constructed(new, specs) ==
    /\ simulator' = StartOfRun(new, simulator.start_weekday, simulator.include_anomalies)
    /\ rng' = new.rng
    /\ battery' = NewBatteryModel(specs, 8000, 25 * Milli, 10000)

\* the ValueError leaves __init__ and run_simulation
ConstructionRaised(error) ==
    /\ simulator' = [simulator EXCEPT !.pc = "raised"]
    /\ UNCHANGED <<rng, battery>>

ConstructWith(looked_up) ==
    IF looked_up.raised # "none"
    THEN ConstructionRaised(looked_up.raised)
    ELSE Constructed(NewSimulator(simulator.version, simulator.vehicle_id,
                                  simulator.user_profile, simulator.seed, rng),
                     looked_up.specs)

\* EVBatterySimulator.__init__ and EVBatterySimulatorV2.__init__
Construct ==
    /\ simulator.pc = "__init__"
    /\ ConstructWith(LookupSpecs(simulator.vehicle_id, VEHICLE_SPECS))
    /\ op' = "__init__"
    /\ UNCHANGED <<VEHICLE_SPECS, thermal_safety, result, last_step, nsteps,
                   shutdown_temp_seen, telemetry_records, all_telemetry, previous,
                   parked, call>>

NextConstruct ==
    \/ Construct
    \/ SimulateDay
    \/ NextActivity
    \/ ExecuteStep
    \/ FinishDay
    \/ SimulateDayV2
    \/ StepV2
    \/ FinishDayV2

SpecConstruct == InitConstruct /\ [][NextConstruct]_vars

\* C13: a vehicle identifier that is not in the catalog never gets past the
\* constructor, which raises: no battery and no record exists for it, and the
\* battery of a simulator that exists is built on its own vehicle's specs
C13_UnknownVehicleFailsAtConstruction ==
    /\ simulator.vehicle_id \notin DOMAIN VEHICLE_SPECS
          => /\ simulator.pc \in {"__init__", "raised"}
             /\ battery = NoBattery
             /\ telemetry_records = <<>>
             /\ all_telemetry = <<>>
    /\ simulator.pc \notin {"__init__", "raised"}
          => /\ simulator.vehicle_id \in DOMAIN VEHICLE_SPECS
             /\ battery.vehicle_id = simulator.vehicle_id
    /\ (op = "__init__" /\ simulator.pc # "raised")
          => simulator.vehicle_id \in DOMAIN VEHICLE_SPECS
C13_Witness ==
    /\ op = "__init__"
    /\ simulator.pc = "raised"
    /\ simulator.vehicle_id = "VEH999"
    /\ battery = NoBattery

-----------------------------------------------------------------------------
(* AnomalyGenerator.inject_anomalies *)

\* the longest series of base_data
MaxSeriesLen == 3
\* the series of a metric, cut to n samples
BaseTemperature == <<25 * Milli, 26 * Milli, 27 * Milli, 28 * Milli>>
BaseVoltage == <<3500, 3600, 3700, 3800>>
\* the entries (anomaly_type, start_idx, params) of anomaly_events
AnomalyInputs ==
    {[type |-> "thermal", start_idx |-> i, duration |-> n, severity |-> "medium",
      glitch_type |-> "none"] : i \in 0..(MaxSeriesLen + 1), n \in {2, 4}}
    \cup {[type |-> "sensor_glitch", start_idx |-> i, duration |-> n,
           severity |-> "low", glitch_type |-> t] :
              i \in 0..(MaxSeriesLen + 1), n \in {1, 3}, t \in {"spike", "dropout"}}
    \cup {[type |-> t, start_idx |-> 1, duration |-> 2, severity |-> "medium",
           glitch_type |-> "none"] :
              t \in {"capacity_fade", "rapid_degradation", "charging_anomaly"}}
AnomalyListInputs ==
    {<<>>} \cup {<<a>> : a \in AnomalyInputs}
           \cup {<<a, b>> : a \in AnomalyInputs,
                            b \in {x \in AnomalyInputs : x.duration > 1}}

\* series[idx] of a Python list, idx >= 0
ReadSample(series, idx) ==
    IF idx >= Len(series)
    THEN [raised |-> "IndexError"]
    ELSE [raised |-> "none", value |-> series[idx + 1]]

\* the loop `if start_idx + i < len(series): series[start_idx + i] = values[i]`
\* (lines 336-338 and 347-349)
Overwrite(series, start_idx, values) ==
    [k \in 1..Len(series) |->
        IF k - 1 >= start_idx /\ k - 1 - start_idx < Len(values)
        THEN values[k - start_idx]
        ELSE series[k]]

\* AnomalyGenerator.generate_thermal_event, np0 being the state of numpy.random
\* at the call; temp_profile[-1] of an empty rise phase raises
GenerateThermalEvent(normal_temp, duration_seconds, severity, np0) ==
    IF duration_seconds \div 2 = 0
    THEN [raised |-> "IndexError"]
    ELSE [raised |-> "none",
          temp_profile |-> [i \in 1..duration_seconds |->
                               ThermalProfileEntry(normal_temp, duration_seconds,
                                                   severity, i - 1, np0)],
          event |-> [event_type |-> "thermal_event", severity |-> severity],
          np |-> RngSkip(np0, duration_seconds)]

\* AnomalyGenerator.generate_sensor_glitch; max() of no deviations raises
GenerateSensorGlitch(normal_value, glitch_type, duration_samples, np0) ==
    IF duration_samples = 0
    THEN [raised |-> "ValueError"]
    ELSE [raised |-> "none",
          glitched_values |-> [i \in 1..duration_samples |->
                                  GlitchValue(normal_value, glitch_type,
                                              duration_samples, i - 1, np0)],
          event |-> [event_type |-> "sensor_glitch", severity |-> "low"],
          np |-> RngSkip(np0, GlitchDraws(glitch_type, duration_samples))]

\* the local `event` of inject_anomalies before its first assignment
Unbound == [event_type |-> "unbound", severity |-> "none"]

\* inject_anomalies(base_data, anomaly_events) has been called (lines 325-326)
InitInject ==
    /\ VEHICLE_SPECS = VehicleCatalog
    /\ thermal_safety = NewThermalSafetyManager
    /\ battery = NoBattery
    /\ result = NoResult
    /\ last_step = NoStep
    /\ op = "init"
    /\ nsteps = 0
    /\ shutdown_temp_seen = FALSE
    /\ rng \in OsEntropy \cup {[random |-> RandomSeed(22), np_random |-> NpRandomSeed(22)]}
    /\ simulator = NoSimulator
    /\ telemetry_records = <<>>
    /\ all_telemetry = <<>>
    /\ previous = NoRun
    /\ parked = NoParked
    /\ \E n \in 0..MaxSeriesLen, anomaly_events \in AnomalyListInputs :
          call = [fn |-> "inject_anomalies", pc |-> "loop", raised |-> "none",
                  base_data |-> [temperature |-> SubSeq(BaseTemperature, 1, n),
                                 voltage |-> SubSeq(BaseVoltage, 1, n)],
                  modified_data |-> [temperature |-> SubSeq(BaseTemperature, 1, n),
                                     voltage |-> SubSeq(BaseVoltage, 1, n)],
                  anomaly_events |-> anomaly_events, injected |-> <<>>,
                  event |-> Unbound, events |-> <<>>]

\* an exception leaves inject_anomalies
InjectRaised(error) ==
    /\ call' = [call EXCEPT !.pc = "raised", !.raised = error]
    /\ UNCHANGED rng

\* lines 336-338 and 351: the profile g.temp_profile overwrites the temperature
InjectTemperature(a, g) ==
    IF g.raised # "none" THEN InjectRaised(g.raised)
    ELSE /\ call' = [call EXCEPT
                        !.modified_data.temperature =
                            Overwrite(@, a.start_idx, g.temp_profile),
                        !.event = g.event,
                        !.events = Append(@, g.event),
                        !.injected = Append(@, a),
                        !.anomaly_events = Tail(@)]
         /\ rng' = [rng EXCEPT !.np_random = g.np]

\* lines 347-349 and 351: the values g.glitched_values overwrite the voltage
InjectVoltage(a, g) ==
    IF g.raised # "none" THEN InjectRaised(g.raised)
    ELSE /\ call' = [call EXCEPT
                        !.modified_data.voltage =
                            Overwrite(@, a.start_idx, g.glitched_values),
                        !.event = g.event,
                        !.events = Append(@, g.event),
                        !.injected = Append(@, a),
                        !.anomaly_events = Tail(@)]
         /\ rng' = [rng EXCEPT !.np_random = g.np]

\* lines 329-335: sample is base_data["temperature"][start_idx]
InjectThermalAt(a, sample) ==
    IF sample.raised # "none" THEN InjectRaised(sample.raised)
    ELSE InjectTemperature(a, GenerateThermalEvent(sample.value, a.duration,
                                                   a.severity, rng.np_random))

\* lines 340-346: sample is base_data["voltage"][start_idx]
InjectGlitchAt(a, sample) ==
    IF sample.raised # "none" THEN InjectRaised(sample.raised)
    ELSE InjectVoltage(a, GenerateSensorGlitch(sample.value, a.glitch_type,
                                               a.duration, rng.np_random))

\* line 351 after a pass that took neither branch of lines 329-349:
\* events.append(event) reads the event of an earlier pass, or no event
InjectNothing(a) ==
    IF call.event = Unbound THEN InjectRaised("UnboundLocalError")
    ELSE /\ call' = [call EXCEPT !.events = Append(@, call.event),
                                 !.injected = Append(@, a),
                                 !.anomaly_events = Tail(@)]
         /\ UNCHANGED rng

\* AnomalyGenerator.inject_anomalies: one pass of the loop (lines 328-351)
InjectAnomaly ==
    /\ call.pc = "loop"
    /\ call.anomaly_events # <<>>
    /\ IF Head(call.anomaly_events).type = "thermal"
       THEN InjectThermalAt(Head(call.anomaly_events),
                            ReadSample(call.base_data.temperature,
                                       Head(call.anomaly_events).start_idx))
       ELSE IF Head(call.anomaly_events).type = "sensor_glitch"
       THEN InjectGlitchAt(Head(call.anomaly_events),
                           ReadSample(call.base_data.voltage,
                                      Head(call.anomaly_events).start_idx))
       ELSE InjectNothing(Head(call.anomaly_events))
    /\ op' = "inject_anomaly"
    /\ UNCHANGED <<VEHICLE_SPECS, thermal_safety, battery, result, last_step, nsteps,
                   shutdown_temp_seen, simulator, telemetry_records, all_telemetry,
                   previous, parked>>

\* AnomalyGenerator.inject_anomalies returns (line 353)
InjectReturn ==
    /\ call.pc = "loop"
    /\ call.anomaly_events = <<>>
    /\ call' = [call EXCEPT !.pc = "returned"]
    /\ op' = "return"
    /\ UNCHANGED <<VEHICLE_SPECS, thermal_safety, battery, result, last_step, nsteps,
                   shutdown_temp_seen, rng, simulator, telemetry_records,
                   all_telemetry, previous, parked>>

NextInject ==
    \/ InjectAnomaly
    \/ InjectReturn

SpecInject == InitInject /\ [][NextInject]_vars

\* the metric an anomaly is written to
MetricOf(a) ==
    CASE a.type = "thermal" -> "temperature"
      [] a.type = "sensor_glitch" -> "voltage"
      [] OTHER -> "none"

\* sample k of a metric lies in the window of an anomaly that was injected
InWindow(metric, k) ==
    \E j \in 1..Len(call.injected) :
        /\ MetricOf(call.injected[j]) = metric
        /\ call.injected[j].start_idx <= k - 1
        /\ k - 1 < call.injected[j].start_idx + call.injected[j].duration

\* C14: inject_anomalies raises no IndexError; the series keep their length,
\* only samples inside the window of an anomaly and below the length of the
\* series are overwritten, and every anomaly, one that starts at or beyond the
\* end of the series included, gets its event
C14_InjectNeverRaisesOnIndices ==
    /\ call.raised # "IndexError"
    /\ \A metric \in {"temperature", "voltage"} :
          /\ Len(call.modified_data[metric]) = Len(call.base_data[metric])
          /\ \A k \in 1..Len(call.base_data[metric]) :
                call.modified_data[metric][k] # call.base_data[metric][k]
                    => InWindow(metric, k)
    /\ Len(call.events) = Len(call.injected)
    /\ call.pc = "returned" => call.anomaly_events = <<>>

-----------------------------------------------------------------------------
(* ChargingPatternGenerator.generate_cc_cv_profile, sample by sample *)

\* the most samples of a session: int(duration_seconds / dt)
MaxSamples == 6
\* charger classes with the time steps dt (seconds) at which one sample of the
\* class moves the SoC by at least its resolution here, 0.01 %
ChargingSteps ==
    {<<"AC_L1", 600>>, <<"AC_L2", 300>>, <<"DC_FAST", 60>>, <<"DC_FAST", 600>>,
     <<"SUPERCHARGER", 5>>, <<"SUPERCHARGER", 60>>}
InitialChargeSocs == {1500, 4900, 7900, 8400, 9000}
TargetSocs == {8000, 9000, 10000}
CapacityInputs == {8200, 6200}
\* the states of numpy.random at the two executions of a call
NoiseInputs == {<<NpRandomSeed(22), NpRandomSeed(22)>>, <<NpRandomSeed(22), 815>>}

\* generate_cc_cv_profile has been called, twice with the same arguments: the
\* second execution (other) draws its variations from another generator state
InitCharging ==
    /\ VEHICLE_SPECS = VehicleCatalog
    /\ thermal_safety = NewThermalSafetyManager
    /\ battery = NoBattery
    /\ result = NoResult
    /\ last_step = NoStep
    /\ op = "init"
    /\ nsteps = 0
    /\ shutdown_temp_seen = FALSE
    /\ simulator = NoSimulator
    /\ telemetry_records = <<>>
    /\ all_telemetry = <<>>
    /\ previous = NoRun
    /\ parked = NoParked
    /\ \E step \in ChargingSteps, initial_soc \in InitialChargeSocs,
          target_soc \in TargetSocs, capacity \in CapacityInputs,
          samples \in 0..MaxSamples, noise \in NoiseInputs :
           /\ rng = [random |-> 0, np_random |-> noise[1]]
           /\ call = [fn |-> "generate_cc_cv_profile", pc |-> "loop",
                      p |-> CcCvParams(350, step[1], target_soc, capacity,
                                       samples * step[2], step[2]),
                      initial_soc |-> initial_soc, i |-> 0,
                      current_soc |-> initial_soc, completed |-> FALSE,
                      current_profile |-> <<>>, soc_profile |-> <<>>,
                      pre_noise |-> <<>>,
                      other |-> [np |-> noise[2], current_soc |-> initial_soc,
                                 completed |-> FALSE, current_profile |-> <<>>,
                                 soc_profile |-> <<>>]]

\* lines 95-149: a pass of the loop in both executions, sample and other_sample
\* being what the pass computes in each
CcCvRecord(sample, other_sample) ==
    /\ call' = [call EXCEPT
                   !.i = @ + 1,
                   !.current_soc = sample.soc,
                   !.completed = @ \/ sample.done,
                   !.current_profile = Append(@, sample.reported.current),
                   !.soc_profile = Append(@, sample.soc),
                   !.pre_noise = Append(@, sample.pre_noise),
                   !.other = [np |-> other_sample.reported.np,
                              current_soc |-> other_sample.soc,
                              completed |-> @.completed \/ other_sample.done,
                              current_profile |->
                                  Append(@.current_profile, other_sample.reported.current),
                              soc_profile |-> Append(@.soc_profile, other_sample.soc)]]
    /\ rng' = [rng EXCEPT !.np_random = sample.reported.np]

\* generate_cc_cv_profile: one pass of the loop over the samples
CcCvStep ==
    /\ call.pc = "loop"
    /\ call.i < call.p.samples
    /\ CcCvRecord(CcCvSample(call.i, call.p, call.current_soc, rng.np_random),
                  CcCvSample(call.i, call.p, call.other.current_soc, call.other.np))
    /\ op' = "sample"
    /\ UNCHANGED <<VEHICLE_SPECS, thermal_safety, battery, result, last_step, nsteps,
                   shutdown_temp_seen, simulator, telemetry_records, all_telemetry,
                   previous, parked>>

\* generate_cc_cv_profile returns current_profile, soc_profile, completed
CcCvReturn ==
    /\ call.pc = "loop"
    /\ call.i >= call.p.samples
    /\ call' = [call EXCEPT !.pc = "returned"]
    /\ op' = "return"
    /\ UNCHANGED <<VEHICLE_SPECS, thermal_safety, battery, result, last_step, nsteps,
                   shutdown_temp_seen, rng, simulator, telemetry_records,
                   all_telemetry, previous, parked>>

NextCharging ==
    \/ CcCvStep
    \/ CcCvReturn

SpecCharging == InitCharging /\ [][NextCharging]_vars

\* the SoC at the start of sample k (from 1)
StartSoc(k) == IF k = 1 THEN call.initial_soc ELSE call.soc_profile[k - 1]

\* C15: generate_cc_cv_profile returns completed = True whenever the last
\* value of soc_profile is at or above target_soc
C15_CompletedWhenTargetReached ==
    (/\ call.pc = "returned"
     /\ call.soc_profile # <<>>
     /\ call.soc_profile[Len(call.soc_profile)] >= call.p.target_soc)
        => call.completed

\* C16: from the first sample that starts with the SoC at or above the target
\* on, every current sample is 0 and every SoC sample is the SoC reached
C16_NoCurrentAfterTarget ==
    \A k \in 1..Len(call.soc_profile) :
        StartSoc(k) >= call.p.target_soc
            => \A j \in k..Len(call.soc_profile) :
                  /\ call.current_profile[j] = 0
                  /\ call.soc_profile[j] = StartSoc(k)
C16_Witness ==
    /\ call.pc = "returned"
    /\ call.initial_soc < call.p.target_soc
    /\ \E k \in 2..(Len(call.soc_profile) - 1) :
          /\ StartSoc(k) >= call.p.target_soc
          /\ call.current_profile[k - 1] > 0
          /\ call.current_profile[k + 1] = 0

\* C17: with initial_soc < target_soc, every sample after the first that starts
\* below the target has a positive current before the variations and raises
\* the SoC, in the constant-current and in the tapering phase alike; a session
\* that reaches the target before its last sample returns completed = True
C17_ChargingProgresses ==
    call.initial_soc < call.p.target_soc
        => /\ \A k \in 2..Len(call.soc_profile) :
                 StartSoc(k) < call.p.target_soc
                     => /\ call.pre_noise[k] > 0
                        /\ call.soc_profile[k] > StartSoc(k)
           /\ (/\ call.pc = "returned"
               /\ \E k \in 1..(Len(call.soc_profile) - 1) :
                     call.soc_profile[k] >= call.p.target_soc)
                 => call.completed
C17_Witness ==
    /\ call.pc = "returned"
    /\ call.completed
    /\ call.initial_soc < call.p.cv_transition_soc
    /\ \E k \in 2..Len(call.soc_profile) :
          /\ StartSoc(k) >= call.p.cv_transition_soc
          /\ StartSoc(k) < call.p.target_soc

\* C18: two executions of generate_cc_cv_profile with the same arguments and
\* different draws return the same soc_profile and the same completed
C18_SocIndependentOfNoise ==
    /\ call.soc_profile = call.other.soc_profile
    /\ call.completed = call.other.completed
C18_Witness ==
    /\ call.pc = "returned"
    /\ Len(call.soc_profile) >= 2
    /\ call.current_profile # call.other.current_profile
    /\ call.soc_profile[Len(call.soc_profile)] > call.initial_soc

-----------------------------------------------------------------------------
(* ChargingPatternGenerator.generate_interrupted_charging *)

\* interruption windows (start_time, interrupt_duration), in units of dt / 2
InterruptionWindows == {<<0, 4>>, <<2, 6>>, <<3, 3>>, <<4, 6>>, <<6, 2>>, <<9, 8>>, <<14, 4>>}
\* lists of at most two windows, in any order
InterruptionLists ==
    {<<>>} \cup {<<w>> : w \in InterruptionWindows}
           \cup {<<v, w>> : v \in InterruptionWindows, w \in InterruptionWindows}
InterruptedSteps == {<<"AC_L2", 300>>, <<"DC_FAST", 60>>}

\* lines 179-180: start_idx = int(start_time / dt), end_idx = int((start_time +
\* interrupt_duration) / dt)
StartIdx(w, dt) == w[1] \div dt
EndIdx(w, dt) == (w[1] + w[2]) \div dt

\* lines 183-185: current_profile[idx] = 0 for idx in range(start_idx,
\* min(end_idx, len(current_profile))); Python indices are from 0
ZeroCurrent(current_profile, start_idx, end_idx) ==
    [idx \in 1..Len(current_profile) |->
        IF start_idx <= idx - 1 /\ idx - 1 < Min(end_idx, Len(current_profile))
        THEN 0 ELSE current_profile[idx]]

\* lines 188-192: soc_profile[idx] = soc_profile[start_idx] for idx in
\* range(start_idx + 1, min(end_idx, len(soc_profile)))
FlattenSoc(soc_profile, start_idx, end_idx) ==
    IF start_idx < Len(soc_profile)
    THEN [idx \in 1..Len(soc_profile) |->
             IF start_idx + 1 <= idx - 1 /\ idx - 1 < Min(end_idx, Len(soc_profile))
             THEN soc_profile[start_idx + 1] ELSE soc_profile[idx]]
    ELSE soc_profile

\* generate_interrupted_charging has been called: it calls
\* generate_cc_cv_profile with target_soc = 100.0
InitInterrupted ==
    /\ VEHICLE_SPECS = VehicleCatalog
    /\ thermal_safety = NewThermalSafetyManager
    /\ battery = NoBattery
    /\ result = NoResult
    /\ last_step = NoStep
    /\ op = "init"
    /\ nsteps = 0
    /\ shutdown_temp_seen = FALSE
    /\ simulator = NoSimulator
    /\ telemetry_records = <<>>
    /\ all_telemetry = <<>>
    /\ previous = NoRun
    /\ parked = NoParked
    /\ rng = [random |-> 0, np_random |-> NpRandomSeed(22)]
    /\ \E step \in InterruptedSteps, initial_soc \in {1500, 7900},
          samples \in (MaxSamples - 1)..MaxSamples,
          interruption_times \in InterruptionLists :
           call = [fn |-> "generate_interrupted_charging", pc |-> "loop",
                   p |-> CcCvParams(350, step[1], 10000, 8200,
                                    samples * step[2], step[2]),
                   initial_soc |-> initial_soc, i |-> 0,
                   current_soc |-> initial_soc, completed |-> FALSE,
                   current_profile |-> <<>>, soc_profile |-> <<>>,
                   pre_noise |-> <<>>,
                   other |-> [np |-> NpRandomSeed(22), current_soc |-> initial_soc,
                              completed |-> FALSE, current_profile |-> <<>>,
                              soc_profile |-> <<>>],
                   interruption_times |->
                       [n \in 1..Len(interruption_times) |->
                           <<(interruption_times[n][1] * step[2]) \div 2,
                             (interruption_times[n][2] * step[2]) \div 2>>],
                   applied |-> 0]

\* lines 178-192: one pass of the loop over interruption_times
ApplyInterruption ==
    /\ call.fn = "generate_interrupted_charging"
    /\ call.pc = "returned"
    /\ call.applied < Len(call.interruption_times)
    /\ LET w == call.interruption_times[call.applied + 1]
       IN call' = [call EXCEPT
                      !.applied = @ + 1,
                      !.current_profile =
                          ZeroCurrent(@, StartIdx(w, call.p.dt), EndIdx(w, call.p.dt)),
                      !.soc_profile =
                          FlattenSoc(@, StartIdx(w, call.p.dt), EndIdx(w, call.p.dt))]
    /\ op' = "interruption"
    /\ UNCHANGED <<VEHICLE_SPECS, thermal_safety, battery, result, last_step, nsteps,
                   shutdown_temp_seen, rng, simulator, telemetry_records,
                   all_telemetry, previous, parked>>

\* line 194: return current_profile, soc_profile
InterruptedReturn ==
    /\ call.fn = "generate_interrupted_charging"
    /\ call.pc = "returned"
    /\ call.applied >= Len(call.interruption_times)
    /\ call' = [call EXCEPT !.pc = "done"]
    /\ op' = "return"
    /\ UNCHANGED <<VEHICLE_SPECS, thermal_safety, battery, result, last_step, nsteps,
                   shutdown_temp_seen, rng, simulator, telemetry_records,
                   all_telemetry, previous, parked>>

NextInterrupted ==
    \/ CcCvStep
    \/ CcCvReturn
    \/ ApplyInterruption
    \/ InterruptedReturn

SpecInterrupted == InitInterrupted /\ [][NextInterrupted]_vars

\* the samples (from 1) of window w that lie inside the profile
WindowSamples(w) ==
    {idx \in 1..Len(call.current_profile) :
        /\ StartIdx(w, call.p.dt) <= idx - 1
        /\ idx - 1 < EndIdx(w, call.p.dt)}

\* C19: in the profiles generate_interrupted_charging returns, every current
\* sample of every interruption window is 0 and the SoC has one value over the
\* samples of the window, whatever the order and the overlap of the windows
C19_InterruptionWindowsFrozen ==
    call.pc = "done"
        => \A n \in 1..Len(call.interruption_times) :
              \A idx \in WindowSamples(call.interruption_times[n]) :
                  /\ call.current_profile[idx] = 0
                  /\ \A other_idx \in WindowSamples(call.interruption_times[n]) :
                        call.soc_profile[idx] = call.soc_profile[other_idx]

-----------------------------------------------------------------------------
(* user_profiles_v2.py: UserBehaviorSimulator.should_charge with the weekly
   charging frequency *)

\* the calls of should_charge on one UserBehaviorSimulator
MaxCalls == 7

\* USER_PROFILES_V2[UserProfile.COMMON_DRIVER], the fields should_charge reads:
\* SoC in 0.01 %, charges per week in tenths, probabilities in percent
USER_PROFILES_V2 ==
    [common_driver |-> [preferred_soc_min |-> 2500, preferred_soc_target |-> 8500,
                        base_charges_per_week |-> 45,
                        night_charging_probability |-> 80,
                        opportunity_charging_probability |-> 35]]

\* what a call of should_charge leaves: the pair returned, the two counters of
\* the simulator and the state of random
ChargeDecision(should_charge, target_soc, charges_this_week, days_since_last_charge, s) ==
    [should_charge |-> should_charge, target_soc |-> target_soc,
     charges_this_week |-> charges_this_week,
     days_since_last_charge |-> days_since_last_charge, random |-> s]

\* lines 114-116: the weekly counter is reset on Sundays
WeekCounter(charges_this_week, day_of_week) ==
    IF day_of_week = 6 THEN 0 ELSE charges_this_week

\* lines 157-167: the days without a charge are counted and a charge is forced
\* after four of them below 40 %
ForcedCharge(behavior, charges, days, current_soc, s) ==
    IF days + 1 >= 4 /\ current_soc < 4000
    THEN ChargeDecision(TRUE, behavior.preferred_soc_target, charges + 1, 0, s)
    ELSE ChargeDecision(FALSE, 0, charges, days + 1, s)

\* lines 135-155: opportunity charging while the weekly limit is not reached
OpportunityCharge(behavior, charges, days, current_soc, hour, s0) ==
    IF charges * 10 < behavior.base_charges_per_week
    THEN IF 22 <= hour \/ hour <= 6
         THEN IF current_soc * 10 < behavior.preferred_soc_target * 9
              THEN IF RandomBelow(RngNext(s0), behavior.night_charging_probability)
                   THEN ChargeDecision(TRUE, behavior.preferred_soc_target,
                                       charges + 1, 0, RngNext(s0))
                   ELSE ForcedCharge(behavior, charges, days, current_soc, RngNext(s0))
              ELSE ForcedCharge(behavior, charges, days, current_soc, s0)
         ELSE IF current_soc * 10 < behavior.preferred_soc_target * 7
              THEN IF RandomBelow(RngNext(s0), behavior.opportunity_charging_probability)
                   THEN ChargeDecision(TRUE,
                                       Min(Uniform(RngNext(RngNext(s0)), current_soc + 1500,
                                                   behavior.preferred_soc_target), 9500),
                                       charges + 1, 0, RngNext(RngNext(s0)))
                   ELSE ForcedCharge(behavior, charges, days, current_soc, RngNext(s0))
              ELSE ForcedCharge(behavior, charges, days, current_soc, s0)
    ELSE ForcedCharge(behavior, charges, days, current_soc, s0)

\* lines 123-133: at or below the preferred minimum a charge is taken within the
\* weekly limit, and past the limit only below 20 %
BelowMinimum(behavior, charges, days, current_soc, hour, s0) ==
    IF current_soc <= behavior.preferred_soc_min
    THEN IF charges * 10 < behavior.base_charges_per_week
         THEN ChargeDecision(TRUE, behavior.preferred_soc_target, charges + 1, 0, s0)
         ELSE IF current_soc < 2000
         THEN ChargeDecision(TRUE, behavior.preferred_soc_target, charges, days, s0)
         ELSE OpportunityCharge(behavior, charges, days, current_soc, hour, s0)
    ELSE OpportunityCharge(behavior, charges, days, current_soc, hour, s0)

\* should_charge where the weekly limit is tested before anything else
ShouldChargeV2_LimitFirst(behavior, charges_this_week, days_since_last_charge, current_soc, hour, day_of_week, s0) ==
    IF WeekCounter(charges_this_week, day_of_week) * 10 >= behavior.base_charges_per_week
    THEN ForcedCharge(behavior, WeekCounter(charges_this_week, day_of_week),
                      days_since_last_charge, current_soc, s0)
    ELSE BelowMinimum(behavior, WeekCounter(charges_this_week, day_of_week),
                      days_since_last_charge, current_soc, hour, s0)

\* UserBehaviorSimulator.should_charge(current_soc, hour, day_of_week), lines
\* 102-167, called with random in state s0
ShouldChargeV2(behavior, charges_this_week, days_since_last_charge, current_soc, hour, day_of_week, s0) ==
    IF current_soc < 1500
    THEN ChargeDecision(TRUE, behavior.preferred_soc_target,
                        WeekCounter(charges_this_week, day_of_week),
                        days_since_last_charge, s0)
    ELSE BelowMinimum(behavior, WeekCounter(charges_this_week, day_of_week),
                      days_since_last_charge, current_soc, hour, s0)

SocInputsV2 == {500, 1499, 1500, 1900, 2500, 3900, 5900, 8000}
HourInputsV2 == {3, 12, 23}
DayOfWeekInputs == {0, 5, 6}

\* UserBehaviorSimulator(UserProfile.COMMON_DRIVER, seed) has been constructed,
\* lines 91-100
InitFrequency ==
    /\ VEHICLE_SPECS = VehicleCatalog
    /\ thermal_safety = NewThermalSafetyManager
    /\ battery = NoBattery
    /\ result = NoResult
    /\ last_step = NoStep
    /\ op = "init"
    /\ nsteps = 0
    /\ shutdown_temp_seen = FALSE
    /\ simulator = NoSimulator
    /\ telemetry_records = <<>>
    /\ all_telemetry = <<>>
    /\ previous = NoRun
    /\ parked = NoParked
    /\ \E seed \in {0, 42} :
          rng = IF seed # 0
                THEN [random |-> RandomSeed(seed), np_random |-> NpRandomSeed(seed)]
                ELSE CHOOSE g \in OsEntropy : TRUE
    /\ call = [fn |-> "should_charge", pc |-> "constructed", profile |-> "common_driver",
               charges_this_week |-> 0, days_since_last_charge |-> 0, calls |-> 0,
               current_soc |-> 0, hour |-> 0, day_of_week |-> 0,
               limit_reached |-> FALSE, returned |-> <<FALSE, 0>>]

\* the simulator after a call of should_charge that decided charge
ShouldChargeReturns(current_soc, hour, day_of_week, charge) ==
    /\ call' = [call EXCEPT
                   !.pc = "returned",
                   !.calls = @ + 1,
                   !.current_soc = current_soc,
                   !.hour = hour,
                   !.day_of_week = day_of_week,
                   !.limit_reached =
                       WeekCounter(call.charges_this_week, day_of_week) * 10
                           >= USER_PROFILES_V2[call.profile].base_charges_per_week,
                   !.charges_this_week = charge.charges_this_week,
                   !.days_since_last_charge = charge.days_since_last_charge,
                   !.returned = <<charge.should_charge, charge.target_soc>>]
    /\ rng' = [rng EXCEPT !.random = charge.random]

\* a call of should_charge(current_soc, hour, day_of_week)
ShouldChargeCall ==
    /\ call.fn = "should_charge"
    /\ call.calls < MaxCalls
    /\ \E current_soc \in SocInputsV2, hour \in HourInputsV2,
          day_of_week \in DayOfWeekInputs :
           ShouldChargeReturns(current_soc, hour, day_of_week,
                               ShouldChargeV2(USER_PROFILES_V2[call.profile],
                                              call.charges_this_week,
                                              call.days_since_last_charge,
                                              current_soc, hour, day_of_week,
                                              rng.random))
    /\ op' = "should_charge"
    /\ UNCHANGED <<VEHICLE_SPECS, thermal_safety, battery, result, last_step, nsteps,
                   shutdown_temp_seen, simulator, telemetry_records, all_telemetry,
                   previous, parked>>

NextFrequency == ShouldChargeCall

SpecFrequency == InitFrequency /\ [][NextFrequency]_vars

\* C20: every call of the frequency-governed should_charge with a SoC below
\* 15 % returns (True, preferred_soc_target), whatever the weekly counter, the
\* days since the last charge, the hour and the day of the week
C20_SafetyChargeBelow15 ==
    (call.pc = "returned" /\ call.current_soc < 1500)
        => call.returned = <<TRUE, USER_PROFILES_V2[call.profile].preferred_soc_target>>
C20_Witness ==
    /\ call.pc = "returned"
    /\ call.current_soc < 1500
    /\ call.limit_reached
    /\ call.days_since_last_charge >= 1
    /\ call.hour = 12
    /\ call.day_of_week = 5
    /\ call.returned = <<TRUE, 8500>>

-----------------------------------------------------------------------------
(* UserBehaviorSimulator.should_charge called through the days of a simulation *)

\* the calls of should_charge on one simulator over consecutive days
MaxDayCalls == 7
SocInputsOfDay == {1700, 2200, 3900, 6500}
HourInputsOfDay == {12, 23}

\* which lines of should_charge granted the charge of decision charge: the
\* forced charge is the one that is not granted with the days left out
GrantPath(behavior, charges, current_soc, hour, s0, charge) ==
    IF ~charge.should_charge THEN "none"
    ELSE IF current_soc < 1500 THEN "safety"
    ELSE IF ~BelowMinimum(behavior, charges, -10, current_soc, hour, s0).should_charge
    THEN "forced"
    ELSE IF current_soc <= behavior.preferred_soc_min
            /\ charges * 10 >= behavior.base_charges_per_week
    THEN "necessary"
    ELSE "budget"

\* a UserBehaviorSimulator constructed (lines 91-100) on the eve of the first
\* day of a simulation, which may be any day of the week; day counts the days
\* from the Monday of that week
InitCalendar ==
    /\ VEHICLE_SPECS = VehicleCatalog
    /\ thermal_safety = NewThermalSafetyManager
    /\ battery = NoBattery
    /\ result = NoResult
    /\ last_step = NoStep
    /\ op = "init"
    /\ nsteps = 0
    /\ shutdown_temp_seen = FALSE
    /\ simulator = NoSimulator
    /\ telemetry_records = <<>>
    /\ all_telemetry = <<>>
    /\ previous = NoRun
    /\ parked = NoParked
    /\ \E seed \in {7, 42} :
          rng = [random |-> RandomSeed(seed), np_random |-> NpRandomSeed(seed)]
    /\ \E first_day \in 0..6 :
          call = [fn |-> "should_charge", pc |-> "constructed", profile |-> "common_driver",
                  charges_this_week |-> 0, days_since_last_charge |-> 0, calls |-> 0,
                  day |-> first_day, called_today |-> FALSE,
                  current_soc |-> 0, hour |-> 0, path |-> "none",
                  last_charge_day |-> first_day - 1, days_elapsed |-> 0,
                  week_charges |-> 0, week_resets |-> 0,
                  returned |-> <<FALSE, 0>>]

\* the simulator after a call on day day that decided charge on the lines path
CalendarReturns(day, current_soc, hour, charge, path) ==
    /\ call' = [call EXCEPT
                   !.pc = "returned",
                   !.calls = @ + 1,
                   !.day = day,
                   !.called_today = TRUE,
                   !.current_soc = current_soc,
                   !.hour = hour,
                   !.path = path,
                   !.charges_this_week = charge.charges_this_week,
                   !.days_since_last_charge = charge.days_since_last_charge,
                   !.days_elapsed = day - call.last_charge_day,
                   !.last_charge_day = IF charge.should_charge THEN day ELSE @,
                   !.week_charges =
                       (IF day \div 7 = call.day \div 7 THEN @ ELSE 0)
                           + (IF path = "budget" /\ current_soc >= 2000 THEN 1 ELSE 0),
                   !.week_resets =
                       (IF day \div 7 = call.day \div 7 THEN @ ELSE 0)
                           + (IF day % 7 = 6 /\ call.charges_this_week > 0 THEN 1 ELSE 0),
                   !.returned = <<charge.should_charge, charge.target_soc>>]
    /\ rng' = [rng EXCEPT !.random = charge.random]

\* should_charge(current_soc, hour, day_of_week) applied to the simulator
CalendarDecides(day, current_soc, hour, charge) ==
    CalendarReturns(day, current_soc, hour, charge,
                    GrantPath(USER_PROFILES_V2[call.profile],
                              WeekCounter(call.charges_this_week, day % 7),
                              current_soc, hour, rng.random, charge))

\* a call of should_charge on the day of the call before it, or the first call
\* of the next day
ShouldChargeOnDay(day) ==
    /\ call.fn = "should_charge"
    /\ call.calls < MaxDayCalls
    /\ \E current_soc \in SocInputsOfDay, hour \in HourInputsOfDay :
           CalendarDecides(day, current_soc, hour,
                           ShouldChargeV2(USER_PROFILES_V2[call.profile],
                                          call.charges_this_week,
                                          call.days_since_last_charge,
                                          current_soc, hour, day % 7, rng.random))
    /\ UNCHANGED <<VEHICLE_SPECS, thermal_safety, battery, result, last_step, nsteps,
                   shutdown_temp_seen, simulator, telemetry_records, all_telemetry,
                   previous, parked>>

\* one more call of should_charge on the same day
CallSameDay ==
    /\ ShouldChargeOnDay(call.day)
    /\ op' = "same_day"

\* the first call of should_charge of the next day
CallNextDay ==
    /\ call.called_today
    /\ ShouldChargeOnDay(call.day + 1)
    /\ op' = "next_day"

NextCalendar ==
    \/ CallSameDay
    \/ CallNextDay

SpecCalendar == InitCalendar /\ [][NextCalendar]_vars

\* C21: after every call _days_since_last_charge is the number of days from
\* the last granted charge to the day of the call, however many calls a day
\* has, and a forced charge is only taken four days or more after the last
\* charge with the SoC below 40 %
C21_DaysSinceLastCharge ==
    call.pc = "returned"
        => /\ call.days_since_last_charge = call.day - call.last_charge_day
           /\ call.path = "forced"
                => (call.days_elapsed >= 4 /\ call.current_soc < 4000)
           /\ (call.days_elapsed >= 4 /\ call.current_soc < 4000) => call.returned[1]

\* C22: within a calendar week the charges granted within the weekly budget
\* (SoC of 20 % or more, not forced) are at most base_charges_per_week rounded
\* up, and the weekly counter is set back to 0 at most once in the week
C22_WeeklyBudgetRespected ==
    /\ call.week_charges * 10 < USER_PROFILES_V2[call.profile].base_charges_per_week + 10
    /\ call.week_resets <= 1

-----------------------------------------------------------------------------
(* test_user_profiles_v2: run_simulation_v2 for one profile after the other,
   same vehicle and same seed *)

\* days=1 of the call in test_user_profiles_v2
ProfileDays == 1
\* the seed argument (seed=42 in test_user_profiles_v2) and the vehicle
ProfileSeeds == {1, 2, 3, 5, 7, 11, 22, 42}
ProfileVehicles == DOMAIN VehicleCatalog

\* run_simulation_v2(vehicle_id, days=1, user_profile=CAUTIOUS,
\* include_anomalies=False, save_to_db=False, seed) has been called
InitProfiles ==
    /\ VEHICLE_SPECS = VehicleCatalog
    /\ thermal_safety = NewThermalSafetyManager
    /\ \E vehicle_id \in ProfileVehicles, seed \in ProfileSeeds, g \in OsEntropy,
          weekday \in 0..6 :
           /\ simulator = [StartOfRun(NewSimulator("v2", vehicle_id, CAUTIOUS, seed, g),
                                      weekday, FALSE) EXCEPT !.days = ProfileDays]
           /\ rng = NewSimulator("v2", vehicle_id, CAUTIOUS, seed, g).rng
           /\ battery = NewBatteryModel(VehicleCatalog[vehicle_id], 8000, 25 * Milli, 10000)
    /\ result = NoResult
    /\ last_step = NoStep
    /\ op = "init"
    /\ nsteps = 0
    /\ shutdown_temp_seen = FALSE
    /\ telemetry_records = <<>>
    /\ all_telemetry = <<>>
    /\ previous = NoRun
    /\ parked = NoParked
    /\ call = NoCall

\* the loop over profiles_to_test: the run of CAUTIOUS has returned and
\* run_simulation_v2 is called for SPONTANEOUS with the same vehicle and seed;
\* new is what EVBatterySimulatorV2.__init__ gives
NextProfileRun(new) ==
    /\ simulator' = [StartOfRun(new, simulator.start_weekday, FALSE)
                        EXCEPT !.days = ProfileDays]
    /\ rng' = new.rng

RunNextProfile ==
    /\ simulator.pc = "done"
    /\ simulator.user_profile = CAUTIOUS
    /\ ~previous.returned
    /\ previous' = [vehicle_id |-> simulator.vehicle_id, telemetry |-> all_telemetry,
                    events |-> simulator.events, returned |-> TRUE]
    /\ NextProfileRun(NewSimulator("v2", simulator.vehicle_id, SPONTANEOUS,
                                   simulator.seed, rng))
    /\ battery' = NewBatteryModel(VEHICLE_SPECS[simulator.vehicle_id],
                                  8000, 25 * Milli, 10000)
    /\ thermal_safety' = NewThermalSafetyManager
    /\ result' = NoResult
    /\ last_step' = NoStep
    /\ shutdown_temp_seen' = FALSE
    /\ telemetry_records' = <<>>
    /\ all_telemetry' = <<>>
    /\ op' = "run_simulation_v2"
    /\ UNCHANGED <<VEHICLE_SPECS, nsteps, parked, call>>

NextProfiles ==
    \/ SimulateDayV2
    \/ StepV2
    \/ FinishDayV2
    \/ RunNextProfile

SpecProfiles == InitProfiles /\ [][NextProfiles]_vars

\* telemetry_df['soc_percent'].min() over the records of the first day
MinSoc(telemetry) ==
    CHOOSE m \in {telemetry[1][i].soc_percent : i \in 1..Len(telemetry[1])} :
        \A i \in 1..Len(telemetry[1]) : m <= telemetry[1][i].soc_percent

-----------------------------------------------------------------------------
(* EVBatterySimulator.save_to_database and insert_telemetry_batch *)

\* the most telemetry records of a run that is saved, the records of a batch
\* (batch_size, 1000 in the program) and the most calls of save_to_database
MaxRecords == 4
BatchSize == 2
MaxSaves == 3
\* the records of combined_events
EventInputs == {<<>>, <<"thermal_event">>, <<"thermal_event", "sensor_glitch">>}

\* telemetry_df.to_dict('records') for records at the times times: seq is the
\* place of a record in the run
TelemetryOf(times) ==
    [i \in 1..Len(times) |-> [vehicle_id |-> "VEH001", time |-> times[i], seq |-> i]]

\* telemetry_records[i:i + batch_size], i from 0
BatchAt(records, i) ==
    SubSeq(records, i + 1, Min(i + BatchSize, Len(records)))

\* INSERT INTO battery_telemetry ... without the ON CONFLICT clause
InsertTelemetryBatch_NoConflictClause(table, batch) ==
    table \o batch

\* insert_telemetry_batch: cursor.executemany of INSERT ... ON CONFLICT
\* (vehicle_id, time) DO NOTHING, row after row, on the rows of table
RECURSIVE InsertTelemetryBatch(_, _)
InsertTelemetryBatch(table, batch) ==
    IF batch = <<>> THEN table
    ELSE InsertTelemetryBatch(
             IF \E k \in 1..Len(table) :
                   /\ table[k].vehicle_id = Head(batch).vehicle_id
                   /\ table[k].time = Head(batch).time
             THEN table ELSE Append(table, Head(batch)),
             Tail(batch))

\* save_to_database(telemetry_df, events_df) has been called on an empty
\* database
InitSave ==
    /\ VEHICLE_SPECS = VehicleCatalog
    /\ thermal_safety = NewThermalSafetyManager
    /\ battery = NoBattery
    /\ result = NoResult
    /\ last_step = NoStep
    /\ op = "init"
    /\ nsteps = 0
    /\ shutdown_temp_seen = FALSE
    /\ rng = CHOOSE g \in OsEntropy : TRUE
    /\ simulator = NoSimulator
    /\ telemetry_records = <<>>
    /\ all_telemetry = <<>>
    /\ previous = NoRun
    /\ parked = NoParked
    /\ \E n \in 0..MaxRecords, events \in EventInputs :
          \E times \in [1..n -> 1..3] :
              call = [fn |-> "save_to_database", pc |-> "batches",
                      telemetry_df |-> TelemetryOf(times), events_df |-> events,
                      given |-> [telemetry_df |-> TelemetryOf(times),
                                 events_df |-> events],
                      i |-> 0, event |-> 0, saves |-> 1, failed |-> 0,
                      failed_part_way |-> FALSE, returned |-> "none",
                      battery_telemetry |-> <<>>, anomaly_events |-> <<>>]

\* lines 483-486: a batch is inserted and committed
InsertBatch ==
    /\ call.fn = "save_to_database"
    /\ call.pc = "batches"
    /\ call.i < Len(call.telemetry_df)
    /\ call' = [call EXCEPT
                   !.i = @ + BatchSize,
                   !.battery_telemetry =
                       InsertTelemetryBatch(@, BatchAt(call.telemetry_df, call.i))]
    /\ op' = "insert_telemetry_batch"
    /\ UNCHANGED <<VEHICLE_SPECS, thermal_safety, battery, result, last_step, nsteps,
                   shutdown_temp_seen, rng, simulator, telemetry_records,
                   all_telemetry, previous, parked>>

\* lines 491-506: the events are inserted one by one, each in its transaction
InsertEvent ==
    /\ call.fn = "save_to_database"
    /\ call.pc = "batches"
    /\ call.i >= Len(call.telemetry_df)
    /\ call.event < Len(call.events_df)
    /\ call' = [call EXCEPT
                   !.event = @ + 1,
                   !.anomaly_events = Append(@, call.events_df[call.event + 1])]
    /\ op' = "execute_query"
    /\ UNCHANGED <<VEHICLE_SPECS, thermal_safety, battery, result, last_step, nsteps,
                   shutdown_temp_seen, rng, simulator, telemetry_records,
                   all_telemetry, previous, parked>>

\* the database raises in the insert that is due: get_cursor rolls the
\* transaction back and save_to_database returns False (lines 512-514)
InsertFails ==
    /\ call.fn = "save_to_database"
    /\ call.pc = "batches"
    /\ call.i < Len(call.telemetry_df) \/ call.event < Len(call.events_df)
    /\ call' = [call EXCEPT
                   !.pc = "returned",
                   !.returned = "False",
                   !.failed = @ + 1,
                   !.failed_part_way = @ \/ (call.i > 0 /\ call.i < Len(call.telemetry_df))]
    /\ op' = "except"
    /\ UNCHANGED <<VEHICLE_SPECS, thermal_safety, battery, result, last_step, nsteps,
                   shutdown_temp_seen, rng, simulator, telemetry_records,
                   all_telemetry, previous, parked>>

\* line 510: return True
SaveReturns ==
    /\ call.fn = "save_to_database"
    /\ call.pc = "batches"
    /\ call.i >= Len(call.telemetry_df)
    /\ call.event >= Len(call.events_df)
    /\ call' = [call EXCEPT !.pc = "returned", !.returned = "True"]
    /\ op' = "return"
    /\ UNCHANGED <<VEHICLE_SPECS, thermal_safety, battery, result, last_step, nsteps,
                   shutdown_temp_seen, rng, simulator, telemetry_records,
                   all_telemetry, previous, parked>>

\* save_to_database is called again with the same DataFrames after it
\* returned False
SaveAgain ==
    /\ call.fn = "save_to_database"
    /\ call.pc = "returned"
    /\ call.returned = "False"
    /\ call.saves < MaxSaves
    /\ call' = [call EXCEPT !.pc = "batches", !.i = 0, !.event = 0,
                            !.saves = @ + 1, !.returned = "none"]
    /\ op' = "save_to_database"
    /\ UNCHANGED <<VEHICLE_SPECS, thermal_safety, battery, result, last_step, nsteps,
                   shutdown_temp_seen, rng, simulator, telemetry_records,
                   all_telemetry, previous, parked>>

NextSave ==
    \/ InsertBatch
    \/ InsertEvent
    \/ InsertFails
    \/ SaveReturns
    \/ SaveAgain

SpecSave == InitSave /\ [][NextSave]_vars

\* the rows of battery_telemetry with the vehicle_id and time of record
RowsOf(record) ==
    {k \in 1..Len(call.battery_telemetry) :
        /\ call.battery_telemetry[k].vehicle_id = record.vehicle_id
        /\ call.battery_telemetry[k].time = record.time}

\* C24: a save that failed is reported as False and leaves the DataFrames as
\* they were given, no (vehicle_id, time) is ever stored twice, and once a
\* later save of the same data returns True every telemetry record has exactly
\* one row with its (vehicle_id, time) in battery_telemetry
C24_FailedSaveRetryable ==
    /\ call.telemetry_df = call.given.telemetry_df
    /\ call.events_df = call.given.events_df
    /\ (call.pc = "returned" /\ call.returned # "True") => call.returned = "False"
    /\ \A k \in 1..Len(call.battery_telemetry) :
          /\ Cardinality(RowsOf(call.battery_telemetry[k])) = 1
          /\ \E n \in 1..Len(call.telemetry_df) :
                call.telemetry_df[n] = call.battery_telemetry[k]
    /\ (call.pc = "returned" /\ call.returned = "True")
          => \A n \in 1..Len(call.telemetry_df) :
                Cardinality(RowsOf(call.telemetry_df[n])) = 1
C24_Witness ==
    /\ call.pc = "returned"
    /\ call.returned = "True"
    /\ call.failed_part_way
    /\ call.saves >= 2
    /\ Len(call.telemetry_df) > BatchSize
    /\ \E m, n \in 1..Len(call.telemetry_df) :
          m # n /\ call.telemetry_df[m].time = call.telemetry_df[n].time

-----------------------------------------------------------------------------
(* DrivingPatternGenerator: the number of samples of a driving profile *)

\* the longest duration_seconds of a call
MaxDuration == 12
DrivingModes == {"city", "highway", "aggressive", "eco", "mixed"}
DrivingSteps == {1, 2}

\* generate_aggressive_driving, the loop from sample i on (lines 157-175)
RECURSIVE AggressiveLoop(_, _, _, _, _)
AggressiveLoop(i, samples, dt, np, current_profile) ==
    IF i >= samples
    THEN [current_profile |-> current_profile, np |-> np]
    ELSE LET phase == (i * dt) % 60
             n1 == RngNext(np)
             n2 == RngNext(n1)
             current ==
                 IF phase < 10 THEN -PowerToCurrent(Uniform(n1, 100000, 150000))
                 ELSE IF phase < 20 THEN -PowerToCurrent(Uniform(n1, 40000, 60000))
                 ELSE IF phase < 25 THEN PowerToCurrent(Uniform(n1, 40000, 60000))
                 ELSE -PowerToCurrent(Uniform(n1, 20000, 40000))
         IN AggressiveLoop(i + 1, samples, dt, n2,
                           Append(current_profile,
                                  current + RoundDiv(StdNormal(n2) * current, 10)))

\* DrivingPatternGenerator.generate_aggressive_driving(duration_seconds, dt)
GenerateAggressiveDriving(duration_seconds, dt, g) ==
    AggressiveLoop(0, duration_seconds \div dt, dt, g.np_random, <<>>)

\* the generator of a driving mode, called with the generators in state g: the
\* profile it returns
GenerateDriving(mode, duration_seconds, dt, g) ==
    CASE mode = "city" -> GenerateCityDriving(duration_seconds, dt, g).current_profile
      [] mode = "highway" -> GenerateHighwayDriving(duration_seconds, dt, g).current_profile
      [] mode = "aggressive" ->
             GenerateAggressiveDriving(duration_seconds, dt, g).current_profile
      [] mode = "eco" -> GenerateEcoDriving(duration_seconds, dt, g).current_profile
      [] mode = "mixed" -> GenerateMixedDriving(duration_seconds, dt, g).current_profile

\* a driving generator is about to be called
InitDriving ==
    /\ VEHICLE_SPECS = VehicleCatalog
    /\ thermal_safety = NewThermalSafetyManager
    /\ battery = NoBattery
    /\ result = NoResult
    /\ last_step = NoStep
    /\ op = "init"
    /\ nsteps = 0
    /\ shutdown_temp_seen = FALSE
    /\ simulator = NoSimulator
    /\ telemetry_records = <<>>
    /\ all_telemetry = <<>>
    /\ previous = NoRun
    /\ parked = NoParked
    /\ \E seed \in {22, 42} :
          rng = [random |-> RandomSeed(seed), np_random |-> NpRandomSeed(seed)]
    /\ \E mode \in DrivingModes, duration_seconds \in 0..MaxDuration,
          dt \in DrivingSteps :
           call = [fn |-> "generate_driving", pc |-> "called", mode |-> mode,
                   duration_seconds |-> duration_seconds, dt |-> dt,
                   current_profile |-> <<>>]

\* the generator runs to its return statement
DrivingGenerated(current_profile) ==
    /\ call' = [call EXCEPT !.pc = "generated", !.current_profile = current_profile]
    /\ op' = "generate_" \o call.mode \o "_driving"

GenerateProfile ==
    /\ call.fn = "generate_driving"
    /\ call.pc = "called"
    /\ DrivingGenerated(GenerateDriving(call.mode, call.duration_seconds, call.dt, rng))
    /\ UNCHANGED <<VEHICLE_SPECS, thermal_safety, battery, result, last_step, nsteps,
                   shutdown_temp_seen, rng, simulator, telemetry_records,
                   all_telemetry, previous, parked>>

\* return current_profile
ReturnProfile ==
    /\ call.fn = "generate_driving"
    /\ call.pc = "generated"
    /\ call' = [call EXCEPT !.pc = "returned"]
    /\ op' = "return"
    /\ UNCHANGED <<VEHICLE_SPECS, thermal_safety, battery, result, last_step, nsteps,
                   shutdown_temp_seen, rng, simulator, telemetry_records,
                   all_telemetry, previous, parked>>

NextDriving ==
    \/ GenerateProfile
    \/ ReturnProfile

SpecDriving == InitDriving /\ [][NextDriving]_vars

\* C25: every driving generator returns int(duration_seconds / dt) samples,
\* none for a duration of 0
C25_DrivingSampleCount ==
    call.pc = "returned"
        => Len(call.current_profile) = call.duration_seconds \div call.dt

-----------------------------------------------------------------------------
(* ThermalSafetyManager.should_allow_charging between the checks *)

\* a manager has been constructed; nothing was asked of it yet
InitAllowCharging ==
    /\ VEHICLE_SPECS = VehicleCatalog
    /\ thermal_safety = NewThermalSafetyManager
    /\ battery = NoBattery
    /\ result = NoResult
    /\ last_step = NoStep
    /\ op = "init"
    /\ nsteps = 0
    /\ shutdown_temp_seen = FALSE
    /\ rng = NoRng
    /\ simulator = NoSimulator
    /\ telemetry_records = <<>>
    /\ all_telemetry = <<>>
    /\ previous = NoRun
    /\ parked = NoParked
    /\ call = [fn |-> "should_allow_charging", pc |-> "none", current_temp |-> 0,
               allowed |-> FALSE, reason |-> ""]

\* manager.should_allow_charging(current_temp) returned answer
AllowChargingReturns(current_temp, answer) ==
    call' = [call EXCEPT !.pc = "returned", !.current_temp = current_temp,
                         !.allowed = answer.allowed, !.reason = answer.reason]

\* manager.should_allow_charging(current_temp)
AllowCharging(current_temp) ==
    /\ call.fn = "should_allow_charging"
    /\ nsteps < MaxChecks
    /\ AllowChargingReturns(current_temp, ShouldAllowCharging(thermal_safety, current_temp))
    /\ op' = "should_allow_charging"
    /\ nsteps' = nsteps + 1
    /\ UNCHANGED <<VEHICLE_SPECS, thermal_safety, battery, result, last_step,
                   shutdown_temp_seen, rng, simulator, telemetry_records,
                   all_telemetry, previous, parked>>

NextAllowCharging ==
    \/ \E temp \in CheckTemps : Check(temp)
    \/ Reset
    \/ \E temp \in CheckTemps : AllowCharging(temp)

SpecAllowCharging == InitAllowCharging /\ [][NextAllowCharging]_vars

\* C26: should_allow_charging refuses while shutdown is active whatever the
\* temperature; otherwise it refuses at or above critical_temp, allows slow
\* charging only at or above warning_temp and normal charging below; the call
\* leaves the manager as it was
C26_ChargingPermission ==
    [][op' = "should_allow_charging" =>
         /\ thermal_safety' = thermal_safety
         /\ IF thermal_safety.shutdown_active
            THEN ~call'.allowed
            ELSE IF call'.current_temp >= critical_temp * Milli
            THEN ~call'.allowed
            ELSE IF call'.current_temp >= warning_temp * Milli
            THEN call'.allowed /\ call'.reason = "Slow charging only - elevated temperature"
            ELSE call'.allowed /\ call'.reason = "Normal charging allowed"]_vars
C26_Witness ==
    /\ op = "should_allow_charging"
    /\ thermal_safety.shutdown_active
    /\ call.current_temp < warning_temp * Milli
    /\ ~call.allowed
    /\ thermal_safety.event_history # <<>>

-----------------------------------------------------------------------------
(* The warning counter and the event history over a sequence of checks *)

\* C27: after every check_temperature a manager whose status is Normal has a
\* warning counter of 0, and every check that returns Warning adds one to the
\* counter
C27_WarningCountZeroWhenNormal ==
    [][op' = "check" =>
         /\ thermal_safety'.current_status = NORMAL
                => thermal_safety'.warning_count = 0
         /\ result'.status = WARNING
                => thermal_safety'.warning_count = thermal_safety.warning_count + 1]_vars
C27_Witness ==
    /\ op = "check"
    /\ thermal_safety.current_status = NORMAL
    /\ thermal_safety.warning_count = 0
    /\ result.status = NORMAL
    /\ ~result.recovered
    /\ Len(thermal_safety.event_history) >= 2
    /\ \A k \in 1..Len(thermal_safety.event_history) :
          thermal_safety.event_history[k].type = "warning"

\* C29: a check that finds the manager in Warning and leaves it in Warning
\* adds one to the warning counter, and adds a 'warning' entry to the event
\* history only when the counter reaches 1, 11, 21, ...
C29_WarningEntriesRateLimited ==
    [][(/\ op' = "check"
        /\ thermal_safety.current_status = WARNING
        /\ thermal_safety'.current_status = WARNING) =>
         /\ thermal_safety'.warning_count = thermal_safety.warning_count + 1
         /\ Len(thermal_safety'.event_history) =
                Len(thermal_safety.event_history)
                    + (IF thermal_safety'.warning_count % 10 = 1 THEN 1 ELSE 0)]_vars

\* C30: a check that changes the status of the manager appends exactly one
\* entry, with the temperature of the check, to the event history
C30_TransitionAppendsEntry ==
    [][(/\ op' = "check"
        /\ thermal_safety'.current_status # thermal_safety.current_status) =>
         /\ Len(thermal_safety'.event_history) = Len(thermal_safety.event_history) + 1
         /\ thermal_safety'.event_history[Len(thermal_safety'.event_history)].temperature
                = result'.temperature]_vars

-----------------------------------------------------------------------------
(* The event history at its capacity: a manager that has already logged    *)
(* about MaxEventHistory events is checked further.  call.log keeps every  *)
(* event ever logged, which the program does not.                          *)

\* temperatures of the further checks
HistoryTemps == {44000, 50000, 55000, 60000}
\* number of checks the manager has behind it at the start
HistoryFill == {MaxEventHistory - 2, MaxEventHistory - 1, MaxEventHistory}

\* the temperature of the k-th of those checks: 50 C, 55 C, 59.999 C in turn
HeatCycle(k) == IF k % 3 = 1 THEN 50000 ELSE IF k % 3 = 2 THEN 55000 ELSE 59999
\* the event _log_event records for a check at temp (lines 106, 118, 133)
HeatEvent(temp) ==
    [type |-> IF temp >= critical_temp * Milli THEN "critical" ELSE "warning",
     temperature |-> temp]
\* the events logged by checks 1..n at HeatCycle temperatures
HeatLog(n) == [k \in 1..n |-> HeatEvent(HeatCycle(k))]
\* the manager after checks 1..n at HeatCycle temperatures, n <= MaxEventHistory
ManagerAfter(n) ==
    [current_status |-> IF n = 0 THEN NORMAL
                        ELSE IF HeatCycle(n) >= critical_temp * Milli THEN CRITICAL
                        ELSE WARNING,
     shutdown_active |-> FALSE,
     warning_count |-> (n + 2) \div 3,
     event_history |-> HeatLog(n)]

\* the events one check at temp appends to the history of manager ts
EventsOfCheck(ts, temp) ==
    CheckTemperature([ts EXCEPT !.event_history = <<>>], temp).ts.event_history

InitHistory ==
    /\ VEHICLE_SPECS = VehicleCatalog
    /\ \E n \in HistoryFill :
          LET chk == CheckTemperature(ManagerAfter(n - 1), HeatCycle(n))
          IN /\ thermal_safety = chk.ts
             /\ result = chk.result
             /\ call = [fn |-> "check_temperature", pc |-> "returned",
                        log |-> HeatLog(n)]
    /\ battery = NoBattery
    /\ last_step = NoStep
    /\ op = "check"
    /\ nsteps = 0
    /\ shutdown_temp_seen = FALSE
    /\ rng = NoRng
    /\ simulator = NoSimulator
    /\ telemetry_records = <<>>
    /\ all_telemetry = <<>>
    /\ previous = NoRun
    /\ parked = NoParked

\* manager.check_temperature(temp), every logged event kept in call.log
CheckLogged(temp) ==
    /\ call.fn = "check_temperature"
    /\ nsteps < MaxChecks
    /\ LET chk == CheckTemperature(thermal_safety, temp)
       IN /\ thermal_safety' = chk.ts
          /\ result' = chk.result
          /\ shutdown_temp_seen' = SeenAfter(shutdown_temp_seen, chk.result)
    /\ call' = [call EXCEPT !.log = call.log \o EventsOfCheck(thermal_safety, temp)]
    /\ op' = "check"
    /\ nsteps' = nsteps + 1
    /\ UNCHANGED <<VEHICLE_SPECS, battery, last_step>>
    /\ UNCHANGED <<rng, simulator, telemetry_records, all_telemetry, previous, parked>>

NextHistory == \E temp \in HistoryTemps : CheckLogged(temp)

SpecHistory == InitHistory /\ [][NextHistory]_vars

\* C28: the event history never holds more than 1000 entries, and it is
\* always the most recent of the events logged so far, in the order in which
\* they were logged: when the bound is exceeded the oldest are dropped
C28_EventHistoryMostRecent ==
    LET h == thermal_safety.event_history
        n == Len(call.log)
    IN /\ Len(h) <= 1000
       /\ Len(h) = Min(n, 1000)
       /\ h = SubSeq(call.log, n - Len(h) + 1, n)
C28_Witness ==
    /\ op = "check"
    /\ Len(call.log) >= 1002
    /\ Len(thermal_safety.event_history) = 1000
    /\ thermal_safety.event_history[1] = call.log[Len(call.log) - 999]
    /\ thermal_safety.event_history[1] # call.log[1]

-----------------------------------------------------------------------------
(* The shutdown flag, the status of the manager and the status returned *)

\* C37: after every check_temperature call and after reset, shutdown_active
\* is true exactly when current_status is Shutdown, and the status in the
\* result of a check equals the current_status of the manager
C37_ShutdownFlagMatchesStatus ==
    /\ thermal_safety.shutdown_active <=> thermal_safety.current_status = SHUTDOWN
    /\ op = "check" => result.status = thermal_safety.current_status
C37_Witness ==
    /\ op = "check"
    /\ thermal_safety.shutdown_active
    /\ thermal_safety.current_status = SHUTDOWN
    /\ result.status = SHUTDOWN
    /\ result.temperature < shutdown_temp * Milli

-----------------------------------------------------------------------------
(* The snapshot of get_state after an apply_current step *)

\* BatteryModel.get_state (lines 251-265): the fields read here; current is
\* round(self.current, 1), the deci-amperes of the model
GetState(b, ts) ==
    [soc_percent |-> b.soc, current |-> b.current, temperature |-> b.temperature,
     thermal_status |-> ts.current_status, thermal_shutdown |-> ts.shutdown_active]

\* C39: in the state get_state returns after an apply_current step,
\* thermal_shutdown (thermal_status 'shutdown') implies current = 0
C39_NoCurrentInShutdownSnapshot ==
    op = "apply_current" =>
        LET state == GetState(battery, thermal_safety)
        IN (state.thermal_shutdown \/ state.thermal_status = SHUTDOWN)
               => state.current = 0

-----------------------------------------------------------------------------
(* A battery in thermal shutdown left to cool: apply_current is called     *)
(* again and again while the ambient temperature stays where it is.        *)
(* self.temperature += temp_change adds nothing when temp_change is under  *)
(* half the resolution of the temperature: a double in the program, a      *)
(* thousandth of a degree here.                                            *)

\* seconds per step, long enough for the cooling of one step to be seen
CoolingDt == 50000
\* ambient temperatures, all strictly below recovery_temp (the test has 40 C)
CoolingAmbients == {40000, 44600}
CoolingCurrents == {-2500, 2000}
\* the specs of the battery as test_thermal_safety_extreme sets them
\* (lines 24-25): thermal mass 50 kg, internal resistance 0.2 ohm
ExtremeSpecs(catalog) ==
    [catalog EXCEPT !["VEH001"].thermal_mass = 50,
                    !["VEH001"].internal_resistance = 200]

\* the battery of the test, at shutdown_temp when the steps begin
InitCooling ==
    /\ VEHICLE_SPECS = ExtremeSpecs(VehicleCatalog)
    /\ thermal_safety = NewThermalSafetyManager
    /\ \E a \in CoolingAmbients :
           battery = [NewBatteryModel(VehicleCatalog["VEH001"], 5000,
                                      shutdown_temp * Milli, 10000)
                          EXCEPT !.ambient_temp = a]
    /\ result = NoResult
    /\ last_step = NoStep
    /\ op = "init"
    /\ nsteps = 0
    /\ shutdown_temp_seen = FALSE
    /\ rng = NoRng
    /\ simulator = NoSimulator
    /\ telemetry_records = <<>>
    /\ all_telemetry = <<>>
    /\ previous = NoRun
    /\ parked = NoParked
    /\ call = NoCall

\* the step r of apply_current taken: the battery and the manager after it
Cooled(requested_current, r) ==
    /\ battery' = r.battery
    /\ thermal_safety' = r.ts
    /\ result' = r.final_check
    /\ last_step' = [requested_current |-> requested_current, dt |-> CoolingDt,
                     soc_before |-> battery.soc,
                     temperature_before |-> battery.temperature,
                     thermal_check |-> r.thermal_check,
                     actual_current |-> r.actual_current,
                     voltage |-> r.voltage, power |-> r.power]
    /\ shutdown_temp_seen' =
           SeenAfter(SeenAfter(shutdown_temp_seen, r.thermal_check), r.final_check)
    /\ op' = "apply_current"
    /\ UNCHANGED <<VEHICLE_SPECS, nsteps>>
    /\ UNCHANGED simvars

\* battery.apply_current(requested_current, CoolingDt), called until the
\* shutdown is cleared
Cool(requested_current) ==
    /\ op = "init" \/ thermal_safety.shutdown_active
    /\ Cooled(requested_current,
              ApplyCurrent(VEHICLE_SPECS[battery.vehicle_id], battery, thermal_safety,
                           requested_current, CoolingDt))

NextCooling == \E c \in CoolingCurrents : Cool(c)

\* the steps are repeated: weak fairness of the call
SpecCooling == InitCooling /\ [][NextCooling]_vars /\ WF_vars(NextCooling)

-----------------------------------------------------------------------------
(* The state machine of generate_city_driving, sample by sample *)

\* seconds of city driving generated
MaxCitySeconds == 240
CitySeeds == {1, 2, 3, 5, 7, 11, 22, 42}
CitySteps == {1, 2}

CityStates == {"stopped", "accelerating", "cruising", "braking", "coasting"}

InitCity ==
    /\ VEHICLE_SPECS = VehicleCatalog
    /\ thermal_safety = NewThermalSafetyManager
    /\ battery = NoBattery
    /\ result = NoResult
    /\ last_step = NoStep
    /\ op = "init"
    /\ nsteps = 0
    /\ shutdown_temp_seen = FALSE
    /\ \E seed \in CitySeeds, dt \in CitySteps :
          /\ rng = [random |-> RandomSeed(seed), np_random |-> NpRandomSeed(seed)]
          /\ call = [fn |-> "generate_city_driving", pc |-> "loop",
                     duration_seconds |-> MaxCitySeconds, dt |-> dt,
                     samples |-> MaxCitySeconds \div dt, i |-> 0,
                     c |-> [state |-> "stopped", state_timer |-> 0, speed_mph |-> 0,
                            current |-> 0, np |-> NpRandomSeed(seed),
                            random |-> RandomSeed(seed)],
                     current_profile |-> <<>>,
                     \* the state the last sample was generated in, the samples
                     \* spent in the present state and since the last stop,
                     \* and the transitions taken so far
                     sampled_in |-> "stopped", dwell |-> 0, away |-> 0,
                     taken |-> {}]
    /\ simulator = NoSimulator
    /\ telemetry_records = <<>>
    /\ all_telemetry = <<>>
    /\ previous = NoRun
    /\ parked = NoParked

\* the loop body has run once and left the state machine in c1
CitySampled(c1) ==
    /\ call' = [call EXCEPT
                  !.i = call.i + 1,
                  !.c = c1,
                  !.current_profile = Append(call.current_profile, c1.current),
                  !.sampled_in = call.c.state,
                  !.dwell = IF c1.state = call.c.state THEN call.dwell + 1 ELSE 0,
                  !.away = IF c1.state = "stopped" THEN 0 ELSE call.away + 1,
                  !.taken = IF c1.state = call.c.state THEN call.taken
                            ELSE call.taken \cup {<<call.c.state, c1.state>>}]
    /\ op' = "sample"
    /\ UNCHANGED <<VEHICLE_SPECS, thermal_safety, battery, result, last_step, nsteps,
                   shutdown_temp_seen, rng, simulator, telemetry_records,
                   all_telemetry, previous, parked>>

\* one iteration of `for _ in range(samples)` (lines 47-102)
SampleCity ==
    /\ call.fn = "generate_city_driving"
    /\ call.pc = "loop"
    /\ call.i < call.samples
    /\ CitySampled(CitySample(call.c, call.dt))

\* return current_profile (line 104)
ReturnCity ==
    /\ call.fn = "generate_city_driving"
    /\ call.pc = "loop"
    /\ call.i >= call.samples
    /\ call' = [call EXCEPT !.pc = "returned"]
    /\ rng' = [random |-> call.c.random, np_random |-> call.c.np]
    /\ op' = "generate_city_driving"
    /\ UNCHANGED <<VEHICLE_SPECS, thermal_safety, battery, result, last_step, nsteps,
                   shutdown_temp_seen, simulator, telemetry_records,
                   all_telemetry, previous, parked>>

NextCity == SampleCity \/ ReturnCity

SpecCity == InitCity /\ [][NextCity]_vars

\* the transitions of the city state machine the claim allows
CityTransitions ==
    {<<"stopped", "accelerating">>, <<"accelerating", "cruising">>,
     <<"cruising", "braking">>, <<"cruising", "coasting">>,
     <<"coasting", "braking">>, <<"braking", "stopped">>}

\* the longest stay in a state, in samples of dt seconds: the largest value
\* of the random limit the state waits for, over the progress of one sample
CityDwell(state, dt) ==
    CASE state = "stopped" -> 90 \div dt + 1
      [] state = "accelerating" -> 370 \div (30 * dt) + 1
      [] state = "cruising" -> 30 \div dt + 1
      [] state = "coasting" -> 15 \div dt + 1
      [] state = "braking" -> (370 + 30 * dt) \div (60 * dt) + 1

\* C36: the city state machine only takes the transitions of CityTransitions,
\* stays in a state for at most CityDwell samples and so is back in stopped
\* within the sum of the stays of the four moving states; the current of a
\* sample generated in stopped is 0 and only braking gives a positive current
C36_CityStateMachine ==
    /\ call.c.state \in CityStates
    /\ call.taken \subseteq CityTransitions
    /\ call.dwell < CityDwell(call.c.state, call.dt)
    /\ call.away <= CityDwell("accelerating", call.dt) + CityDwell("cruising", call.dt)
                      + CityDwell("coasting", call.dt) + CityDwell("braking", call.dt)
    /\ op = "sample" =>
          /\ call.sampled_in = "stopped" => call.c.current = 0
          /\ call.c.current > 0 => call.sampled_in = "braking"
C36_Witness ==
    /\ call.pc = "returned"
    /\ call.taken = CityTransitions
    /\ \E k \in 1..Len(call.current_profile) : call.current_profile[k] > 0

-----------------------------------------------------------------------------
(* The ambient temperature of the records of a day *)

\* C31: in EVBatterySimulator.simulate_day every emitted record stores the
\* ambient temperature of the hour of its timestamp, ambient_temp_profile[hour],
\* also inside an activity that spans several hours
C31_AmbientOfRecordHour ==
    simulator.version = "v1" =>
        \A k \in 1..Len(telemetry_records) :
            telemetry_records[k].ambient_temp
                = AmbientTempProfile[HourOf(telemetry_records[k].time) + 1]
-----------------------------------------------------------------------------
(* The end of a charging activity of the dynamic orchestrator *)

\* a pass of the main loop of EVBatterySimulatorV2.simulate_day
IsPassV2 ==
    /\ simulator.version = "v2"
    /\ simulator.pc = "loop"
    /\ simulator'.pc = "loop"
    /\ simulator'.current_time = simulator.current_time + SimulationDt

\* the pass executed a charging activity on a battery that had reached the
\* target of the activity, or for which _get_charging_current computed 0
ChargingIsOver ==
    /\ simulator'.current_activity.type = "charging"
    /\ \/ last_step'.soc_before >= simulator'.current_activity.target_soc
       \/ GetChargingCurrent(VEHICLE_SPECS[simulator.vehicle_id],
                             simulator'.current_activity.charging_type,
                             last_step'.soc_before,
                             simulator'.current_activity.target_soc) = 0

\* the state after a pass that ended its charging activity
EndedEarly ==
    /\ simulator.version = "v2"
    /\ simulator.pc = "loop"
    /\ op = "apply_current"
    /\ simulator.current_activity.type = "charging"
    /\ ~telemetry_records[Len(telemetry_records)].is_charging

\* C32: in the dynamic orchestrator, a pass of a charging activity whose
\* battery has reached the target (or whose computed charging current is 0)
\* requests zero current, is recorded as not charging and ends the activity at
\* the time of the pass; the pass after it plans a new activity from what
\* should_charge returns then, whatever the planned duration was
C32_ChargingEndsEarly ==
    [][/\ (IsPassV2 /\ ChargingIsOver) =>
            /\ last_step'.requested_current = 0
            /\ ~telemetry_records'[Len(telemetry_records')].is_charging
            /\ simulator'.activity_end_time = simulator.current_time
       /\ (IsPassV2 /\ EndedEarly) =>
            /\ simulator.activity_end_time <= simulator.current_time
            /\ simulator'.current_activity =
                   ClipToEndOfDay(
                       simulator.current_time, Date(simulator) + Hours(24),
                       ChooseActivity(simulator.user_profile,
                                      AtAmbient(battery, simulator.current_time),
                                      simulator.current_time, IsWeekend(simulator),
                                      ShouldCharge(simulator.user_profile, battery.soc,
                                                   HourOf(simulator.current_time),
                                                   rng.random))).activity]_vars

\* a charging activity was ended before its planned duration had elapsed
C32_Witness ==
    /\ EndedEarly
    /\ simulator.activity_end_time = simulator.current_time - SimulationDt
    /\ simulator.current_activity.duration > SimulationDt
    /\ last_step.requested_current = 0
    /\ Len(telemetry_records) > 1
    /\ telemetry_records[Len(telemetry_records) - 1].is_charging
-----------------------------------------------------------------------------
(* What the injection of a day's anomalies leaves alone *)

\* record with the four fields _inject_daily_anomalies assigns taken from other
SameButInjected(record, other) ==
    [record EXCEPT !.temperature = other.temperature,
                   !.max_cell_temp = other.max_cell_temp,
                   !.min_cell_temp = other.min_cell_temp,
                   !.voltage = other.voltage] = other

\* simulate_day of EVBatterySimulator is returning a day with its anomalies
InjectsDay ==
    /\ simulator.version = "v1"
    /\ simulator.pc = "schedule"
    /\ simulator.include_anomalies
    /\ op' = "finish_day"

\* C33: EVBatterySimulator._inject_daily_anomalies changes only temperature,
\* max_cell_temp, min_cell_temp and voltage: the records of the day are as
\* many and in the same order after it, and each keeps its timestamp, SoC,
\* SoH, current and activity flags, whatever anomalies were drawn
C33_InjectionFrame ==
    [][InjectsDay =>
          /\ Len(telemetry_records') = Len(telemetry_records)
          /\ \A k \in 1..Len(telemetry_records) :
                /\ SameButInjected(telemetry_records'[k], telemetry_records[k])
                /\ telemetry_records'[k].time = telemetry_records[k].time
                /\ telemetry_records'[k].soc_percent = telemetry_records[k].soc_percent
                /\ telemetry_records'[k].soh_percent = telemetry_records[k].soh_percent
                /\ telemetry_records'[k].current = telemetry_records[k].current
                /\ telemetry_records'[k].is_charging = telemetry_records[k].is_charging
                /\ telemetry_records'[k].is_driving = telemetry_records[k].is_driving]_vars

\* a day was returned with a thermal event and a sensor glitch in its records
C33_Witness ==
    /\ simulator.version = "v1"
    /\ op = "finish_day"
    /\ \E i \in 1..Len(simulator.events) : simulator.events[i] = "thermal_event"
    /\ \E i \in 1..Len(simulator.events) : simulator.events[i] = "sensor_glitch"
    /\ \E k \in 1..Len(telemetry_records) :
          /\ telemetry_records[k].max_cell_temp = telemetry_records[k].temperature + 2 * Milli
          /\ telemetry_records[k].min_cell_temp = telemetry_records[k].temperature - 2 * Milli
-----------------------------------------------------------------------------
(* The events inject_anomalies returns for the anomalies requested *)

\* the event_type the generator of an anomaly family gives its event
EventTypeOf(anomaly_type) ==
    IF anomaly_type = "thermal" THEN "thermal_event" ELSE anomaly_type

\* C34: inject_anomalies returns one event per requested anomaly, in the order
\* of the requests, the event of each being of the family requested, for
\* requests of any of the five families and any mix of them, and leaves the
\* series of base_data as they were passed in
C34_OneEventPerRequest ==
    call.fn = "inject_anomalies" =>
        /\ call.raised # "UnboundLocalError"
        /\ Len(call.events) = Len(call.injected)
        /\ \A j \in 1..Len(call.events) :
              call.events[j].event_type = EventTypeOf(call.injected[j].type)
        /\ call.base_data.temperature =
               SubSeq(BaseTemperature, 1, Len(call.base_data.temperature))
        /\ call.base_data.voltage =
               SubSeq(BaseVoltage, 1, Len(call.base_data.voltage))
-----------------------------------------------------------------------------
(* A day of the dynamic orchestrator with anomalies *)

\* C35: EVBatterySimulatorV2.simulate_day with include_anomalies=True never
\* raises, whatever anomalies are drawn, and returns the telemetry of the day,
\* which the run then holds, with the events of the anomalies injected
C35_DayWithAnomaliesReturns ==
    (simulator.version = "v2" /\ simulator.include_anomalies) =>
        /\ simulator.pc # "raised"
        /\ op = "finish_day" =>
              /\ Len(all_telemetry) = simulator.day
              /\ all_telemetry[simulator.day] = telemetry_records

====
